---- MODULE Spec2Model ----
(***************************************************************************)
(* Model of the natural-language data modifier, the rule builder and the   *)
(* host page of the Data Alchemist application.                            *)
(*                                                                         *)
(* A JavaScript string is a sequence of one-character strings, so that     *)
(* lower-casing, substring search and the regular expressions of the       *)
(* parser are computed character by character.  A scalar cell value is a   *)
(* record [kind, text]: kind is the JavaScript type and text is String(v). *)
(* A row is the sequence of its [k, v] entries in insertion order, which   *)
(* is the order Object.keys reports.                                       *)
(***************************************************************************)
EXTENDS Integers, Sequences, FiniteSets, TLC

\* ------------------------------------------------------------------------
\* Characters and strings
\* ------------------------------------------------------------------------

LowerLetters ==
    <<"a","b","c","d","e","f","g","h","i","j","k","l","m",
      "n","o","p","q","r","s","t","u","v","w","x","y","z">>

UpperLetters ==
    <<"A","B","C","D","E","F","G","H","I","J","K","L","M",
      "N","O","P","Q","R","S","T","U","V","W","X","Y","Z">>

Digits == <<"0","1","2","3","4","5","6","7","8","9">>

Range(s) == {s[i] : i \in DOMAIN s}

Min(S) == CHOOSE x \in S : \A y \in S : x <= y
Max(S) == CHOOSE x \in S : \A y \in S : x >= y

LowerSet == Range(LowerLetters)
UpperSet == Range(UpperLetters)
DigitSet == Range(Digits)
WordSet  == LowerSet \cup UpperSet \cup DigitSet \cup {"_"}

LowerOf == [c \in UpperSet |-> LowerLetters[CHOOSE i \in 1..26 : UpperLetters[i] = c]]
UpperOf == [c \in LowerSet |-> UpperLetters[CHOOSE i \in 1..26 : LowerLetters[i] = c]]

\* String.prototype.toLowerCase / toUpperCase, one character
toLowerChar(c) == IF c \in UpperSet THEN LowerOf[c] ELSE c
toUpperChar(c) == IF c \in LowerSet THEN UpperOf[c] ELSE c

toLowerCase(s) == [i \in 1..Len(s) |-> toLowerChar(s[i])]
toUpperCase(s) == [i \in 1..Len(s) |-> toUpperChar(s[i])]

\* the regular-expression classes \s, \w, \d and ["'] on this alphabet
IsSpace(c) == c = " "
IsDigit(c) == c \in DigitSet
IsWord(c)  == c \in WordSet
IsQuote(c) == c \in {"\"", "'"}
NotQuote(c) == ~IsQuote(c)

\* p occurs in s at position i
IsPrefixAt(s, p, i) ==
    /\ i >= 1
    /\ i + Len(p) - 1 <= Len(s)
    /\ \A j \in 1..Len(p) : s[i + j - 1] = p[j]

\* String.prototype.includes
includes(s, p) == \E i \in 1..(Len(s) + 1) : IsPrefixAt(s, p, i)

startsWith(s, p) == IsPrefixAt(s, p, 1)
endsWith(s, p) == IsPrefixAt(s, p, Len(s) - Len(p) + 1)

\* number of consecutive characters of s from position i on that satisfy P
Run(s, i, P(_)) ==
    IF i > Len(s) THEN 0
    ELSE LET stops == {j \in i..Len(s) : ~P(s[j])}
         IN  IF stops = {} THEN Len(s) - i + 1 ELSE Min(stops) - i

\* s.substring(i - 1, i - 1 + n)
Sub(s, i, n) == SubSeq(s, i, i + n - 1)

\* String.prototype.trim
trim(s) ==
    LET keep == {i \in 1..Len(s) : ~IsSpace(s[i])}
    IN  IF keep = {} THEN <<>> ELSE SubSeq(s, Min(keep), Max(keep))

\* the elements of a finite set of integers in increasing order
RECURSIVE SortedSeq(_)
SortedSeq(S) ==
    IF S = {} THEN <<>> ELSE <<Min(S)>> \o SortedSeq(S \ {Min(S)})

\* String.prototype.split(' ')
RECURSIVE split(_)
split(s) ==
    LET sp == {i \in 1..Len(s) : s[i] = " "}
    IN  IF sp = {} THEN <<s>>
        ELSE <<SubSeq(s, 1, Min(sp) - 1)>> \o split(SubSeq(s, Min(sp) + 1, Len(s)))

\* Array.prototype.join(sep)
RECURSIVE join(_, _)
join(parts, sep) ==
    IF parts = <<>> THEN <<>>
    ELSE IF Len(parts) = 1 THEN parts[1]
    ELSE parts[1] \o sep \o join(Tail(parts), sep)

DigitValue == [c \in DigitSet |-> (CHOOSE i \in 1..10 : Digits[i] = c) - 1]

\* parseInt of a string of decimal digits
RECURSIVE parseInt(_)
parseInt(ds) ==
    IF ds = <<>> THEN 0
    ELSE 10 * parseInt(SubSeq(ds, 1, Len(ds) - 1)) + DigitValue[ds[Len(ds)]]

\* String(n) for a natural number n
RECURSIVE NatToString(_)
NatToString(n) ==
    IF n < 10 THEN <<Digits[n + 1]>>
    ELSE NatToString(n \div 10) \o <<Digits[(n % 10) + 1]>>

\* ------------------------------------------------------------------------
\* Cell values and rows
\* ------------------------------------------------------------------------

StrVal(t)  == [kind |-> "string", text |-> t]
NumVal(n)  == [kind |-> "number", text |-> NatToString(n)]
BoolVal(b) == [kind |-> "boolean",
               text |-> IF b THEN <<"t","r","u","e">> ELSE <<"f","a","l","s","e">>]
Undefined  == [kind |-> "undefined",
               text |-> <<"u","n","d","e","f","i","n","e","d">>]

\* String(v)
String(v) == v.text

\* JavaScript truthiness of a cell value (the left operand of || and &&)
Truthy(v) ==
    CASE v.kind = "string"  -> v.text # <<>>
      [] v.kind = "number"  -> v.text \notin {<<"0">>, <<"N","a","N">>}
      [] v.kind = "boolean" -> v.text = <<"t","r","u","e">>
      [] OTHER              -> FALSE

\* Object.keys(row)
Keys(row) == [i \in 1..Len(row) |-> row[i].k]

HasKey(row, f) == \E i \in 1..Len(row) : row[i].k = f

\* row[f]
Get(row, f) ==
    IF HasKey(row, f)
    THEN row[CHOOSE i \in 1..Len(row) : row[i].k = f].v
    ELSE Undefined

\* { ...row, [f]: v }
Put(row, f, v) ==
    IF HasKey(row, f)
    THEN [i \in 1..Len(row) |-> IF row[i].k = f THEN [k |-> f, v |-> v] ELSE row[i]]
    ELSE Append(row, [k |-> f, v |-> v])

\* ------------------------------------------------------------------------
\* NaturalLanguageDataModifier: parseCommand
\* ------------------------------------------------------------------------

\* normalize = str.replace(/\s|_/g, '').toLowerCase()
RECURSIVE normalizeFrom(_, _)
normalizeFrom(str, i) ==
    IF i > Len(str) THEN <<>>
    ELSE IF IsSpace(str[i]) \/ str[i] = "_" THEN normalizeFrom(str, i + 1)
    ELSE <<toLowerChar(str[i])>> \o normalizeFrom(str, i + 1)

normalize(str) == normalizeFrom(str, 1)

\* availableFields = data && data.length > 0 ? Object.keys(data[0]) : []
availableFields(data) == IF Len(data) > 0 THEN Keys(data[1]) ELSE <<>>

TransformNames ==
    << <<"u","p","p","e","r","c","a","s","e">>,
       <<"l","o","w","e","r","c","a","s","e">>,
       <<"c","a","p","i","t","a","l","i","z","e">>,
       <<"t","r","i","m">>,
       <<"r","e","v","e","r","s","e">>,
       <<"l","e","n","g","t","h">>,
       <<"w","o","r","d","c","o","u","n","t">> >>

NoMatch == [ok |-> FALSE]

\* Attempts of a regular expression at the positions of a range: a set of
\* [at, m], m the result of the attempt at position at.  LastOk is the
\* choice of a greedy quantifier (the longest that lets the rest match),
\* FirstOk the leftmost match.
LastOk(attempts) ==
    LET oks == {a \in attempts : a.m.ok}
    IN  IF oks = {} THEN NoMatch
        ELSE (CHOOSE a \in oks : \A b \in oks : b.at <= a.at).m

FirstOk(attempts) ==
    LET oks == {a \in attempts : a.m.ok}
    IN  IF oks = {} THEN NoMatch
        ELSE (CHOOSE a \in oks : \A b \in oks : a.at <= b.at).m

\* lowerCommand.match(/to (uppercase|lowercase|capitalize|trim|reverse|length|wordcount)/)
NameAt(s, i) ==
    LET ns == {n \in 1..Len(TransformNames) : IsPrefixAt(s, TransformNames[n], i)}
    IN  IF ns = {} THEN NoMatch ELSE [ok |-> TRUE, g1 |-> TransformNames[Min(ns)]]

transformMatch(s) ==
    FirstOk({[at |-> p,
              m  |-> IF IsPrefixAt(s, <<"t","o"," ">>, p) THEN NameAt(s, p + 3)
                     ELSE NoMatch] : p \in 1..Len(s)})

\* lowerCommand.match(/transform.*to (\w+)/): the greedy .* keeps the last "to <word>"
tMatch(s) ==
    LET starts == {p \in 1..Len(s) : IsPrefixAt(s, <<"t","r","a","n","s","f","o","r","m">>, p)}
        qs == {q \in 1..Len(s) : /\ starts # {}
                                 /\ q >= Min(starts) + 9
                                 /\ IsPrefixAt(s, <<"t","o"," ">>, q)
                                 /\ Run(s, q + 3, IsWord) >= 1}
    IN  IF qs = {} THEN NoMatch
        ELSE [ok |-> TRUE, g1 |-> Sub(s, Max(qs) + 3, Run(s, Max(qs) + 3, IsWord))]

\* the capture ([^"']+) tried at position f
CaptureAt(s, f, n) ==
    IF n >= 1 THEN [ok |-> TRUE, g |-> Sub(s, f, n)] ELSE NoMatch

\* the tail ["']?([^"']+)["']? tried at position f: the optional quote is
\* taken first and given back when the capture would be empty
QuotedAt(s, f) ==
    IF f <= Len(s) /\ IsQuote(s[f]) /\ Run(s, f + 1, NotQuote) >= 1
    THEN CaptureAt(s, f + 1, Run(s, f + 1, NotQuote))
    ELSE CaptureAt(s, f, Run(s, f, NotQuote))

\* <white space, at least least many>["']?([^"']+)["']? tried at position e:
\* the white space is matched greedily and given back one character at a time
ValueAfter(s, e, least) ==
    LastOk({[at |-> k, m |-> QuotedAt(s, e + k)] : k \in least..Run(s, e, IsSpace)})

WhereOps ==
    << <<"=">>, <<">">>, <<"<">>,
       <<"c","o","n","t","a","i","n","s">>,
       <<"s","t","a","r","t","s"," ","w","i","t","h">>,
       <<"e","n","d","s"," ","w","i","t","h">> >>

\* groups 2 and 3 of a match of the operator op followed by the value m
WithOperator(op, m) ==
    IF m.ok THEN [ok |-> TRUE, g2 |-> op, g3 |-> m.g] ELSE NoMatch

\* (=|>|<|contains|starts with|ends with)\s*["']?([^"']+)["']? tried at position d
OpAt(s, d) ==
    FirstOk({[at |-> o,
              m  |-> IF IsPrefixAt(s, WhereOps[o], d)
                     THEN WithOperator(WhereOps[o],
                                       ValueAfter(s, d + Len(WhereOps[o]), 0))
                     ELSE NoMatch] : o \in 1..Len(WhereOps)})

\* group 1 of a match of the word w followed by the operator and value m
WithWord(w, m) ==
    IF m.ok THEN [ok |-> TRUE, g1 |-> w, g2 |-> m.g2, g3 |-> m.g3] ELSE NoMatch

\* (\w+)\s*(op)... tried at position b with the word cut to wl characters
WordAt(s, b, wl) ==
    WithWord(Sub(s, b, wl),
             LastOk({[at |-> k, m |-> OpAt(s, b + wl + k)] :
                        k \in 0..Run(s, b + wl, IsSpace)}))

\* (\w+)... tried at position b: \w+ is greedy and backtracks
WordFrom(s, b) ==
    LastOk({[at |-> wl, m |-> WordAt(s, b, wl)] : wl \in 1..Run(s, b, IsWord)})

\* where\s+(\w+)... tried at position p
WhereAt(s, p) ==
    IF IsPrefixAt(s, <<"w","h","e","r","e">>, p) /\ Run(s, p + 5, IsSpace) >= 1
    THEN WordFrom(s, p + 5 + Run(s, p + 5, IsSpace))
    ELSE NoMatch

\* lowerCommand.match(/where\s+(\w+)\s*(=|>|<|contains|starts with|ends with)\s*["']?([^"']+)["']?/i)
whereMatch(s) ==
    FirstOk({[at |-> p, m |-> WhereAt(s, p)] : p \in 1..Len(s)})

\* lowerCommand.match(/<kw>\s+["']?([^"']+)["']?/i) for kw = to, with, set;
\* g is group 1
keywordMatch(s, kw) ==
    FirstOk({[at |-> p,
              m  |-> IF IsPrefixAt(s, kw, p) THEN ValueAfter(s, p + Len(kw), 1)
                     ELSE NoMatch] : p \in 1..Len(s)})

\* lowerCommand.match(/row\s+(\d+)/gi)?.map(m => parseInt(m.replace(/row\s+/i, ''))) || []
rowNumbers(s) ==
    LET DigitsAt(p) == p + 3 + Run(s, p + 3, IsSpace)
        ps == SortedSeq({p \in 1..Len(s) : /\ IsPrefixAt(s, <<"r","o","w">>, p)
                                           /\ Run(s, p + 3, IsSpace) >= 1
                                           /\ Run(s, DigitsAt(p), IsDigit) >= 1})
    IN  [i \in 1..Len(ps) |->
            parseInt(Sub(s, DigitsAt(ps[i]), Run(s, DigitsAt(ps[i]), IsDigit)))]

\* m ? m[1] : ''
groupOne(m) == IF m.ok THEN m.g1 ELSE <<>>

\* the operation and the literal of lines 57-75, transformMatch being the
\* result of the match of line 57
operationOf(lc, m) ==
    IF m.ok
    THEN [operation |-> "transform", newValue |-> m.g1]
    ELSE IF includes(lc, <<"d","e","l","e","t","e">>) \/ includes(lc, <<"r","e","m","o","v","e">>)
    THEN [operation |-> "delete", newValue |-> <<>>]
    ELSE IF includes(lc, <<"a","d","d">>) \/ includes(lc, <<"i","n","s","e","r","t">>)
    THEN [operation |-> "add", newValue |-> <<>>]
    ELSE IF includes(lc, <<"r","e","p","l","a","c","e">>) \/ includes(lc, <<"s","w","a","p">>)
    THEN [operation |-> "replace", newValue |-> <<>>]
    ELSE IF includes(lc, <<"t","r","a","n","s","f","o","r","m">>)
            \/ includes(lc, <<"c","o","n","v","e","r","t">>)
    THEN [operation |-> "transform", newValue |-> groupOne(tMatch(lc))]
    ELSE [operation |-> "update", newValue |-> <<>>]

detectOperation(lc) == operationOf(lc, transformMatch(lc))

\* matchField without the break: the last matching field
matchFieldLast(fields, lc) ==
    LET hits == {i \in 1..Len(fields) : includes(normalize(lc), normalize(fields[i]))}
    IN  IF hits = {} THEN <<>> ELSE fields[Max(hits)]

\* the first field of availableFields whose normalized name occurs in the
\* normalized command; '' when there is none (lines 78-85)
matchField(fields, lc) ==
    LET normalizedCommand == normalize(lc)
        hits == {i \in 1..Len(fields) : includes(normalizedCommand, normalize(fields[i]))}
    IN  IF hits = {} THEN <<>> ELSE fields[Min(hits)]

\* whereMatch ? `${whereMatch[1]} ${whereMatch[2]} ${whereMatch[3]}` : ''
conditionText(m) ==
    IF m.ok THEN m.g1 \o <<" ">> \o m.g2 \o <<" ">> \o m.g3 ELSE <<>>

\* condition of lines 87-90
extractCondition(lc) == conditionText(whereMatch(lc))

\* m?.[1] || otherwise, for a match of keywordMatch: group 1 is not empty
groupOr(m, otherwise) == IF m.ok THEN m.g ELSE otherwise

\* newValue = toMatch?.[1] || withMatch?.[1] || setMatch?.[1] || '' (lines 92-97)
extractNewValue(lc, op) ==
    IF op.newValue = <<>> /\ op.operation \in {"update", "replace"}
    THEN groupOr(keywordMatch(lc, <<"t","o">>),
                 groupOr(keywordMatch(lc, <<"w","i","t","h">>),
                         groupOr(keywordMatch(lc, <<"s","e","t">>), <<>>)))
    ELSE op.newValue

\* the "Could not find a matching field" message of line 108
fieldNotFoundMessage(fields) ==
    <<"C","o","u","l","d"," ","n","o","t"," ","f","i","n","d"," ","a"," ",
      "m","a","t","c","h","i","n","g"," ","f","i","e","l","d","."," ",
      "A","v","a","i","l","a","b","l","e"," ","f","i","e","l","d","s",":"," ">>
    \o join(fields, <<",", " ">>)

NoError == <<>>

\* what parseCommand returns and reports for the lower-cased command lc, the
\* detected operation op and the matched field
parsedCommand(lc, op, field, fields, hasSetError) ==
    IF field = <<>>
    THEN [ok |-> FALSE,
          error |-> IF hasSetError THEN fieldNotFoundMessage(fields) ELSE NoError]
    ELSE [ok |-> TRUE, error |-> NoError,
          operation |-> op.operation,
          field |-> field,
          condition |-> extractCondition(lc),
          newValue |-> extractNewValue(lc, op),
          affectedRows |-> rowNumbers(lc)]

\* parseCommand(command, setError?): parsed is the returned object (ok = FALSE
\* for null) and error is what setError was called with, NoError when it was
\* not called; hasSetError tells whether the caller passed the callback
parseCommand(command, fields, hasSetError) ==
    parsedCommand(toLowerCase(command),
                  detectOperation(toLowerCase(command)),
                  matchField(fields, toLowerCase(command)),
                  fields, hasSetError)

\* ------------------------------------------------------------------------
\* NaturalLanguageDataModifier: evaluateCondition and transformValue
\* ------------------------------------------------------------------------

RECURSIVE Pow10(_)
Pow10(n) == IF n <= 0 THEN 1 ELSE 10 * Pow10(n - 1)

\* parseFloat(s): [nan |-> TRUE] or the number m * 10^p.  Leading white
\* space, a sign, digits, a fraction and a complete exponent are read and the
\* rest of the string is ignored.

\* the exponent read at position e0: 0 unless "e", a sign and digits follow
exponentAt(s, e0, e1) ==
    IF e0 <= Len(s) /\ s[e0] = "e" /\ Run(s, e1, IsDigit) >= 1
    THEN (IF s[e0 + 1] = "-" THEN -1 ELSE 1)
         * parseInt(Sub(s, e1, Run(s, e1, IsDigit)))
    ELSE 0

\* the number with nInt integer digits at i1 and nFrac fraction digits
floatValue(s, sgn, i1, nInt, nFrac, e0) ==
    IF nInt = 0 /\ nFrac = 0
    THEN [nan |-> TRUE, m |-> 0, p |-> 0]
    ELSE [nan |-> FALSE,
          m |-> sgn * parseInt(Sub(s, i1, nInt) \o Sub(s, i1 + nInt + 1, nFrac)),
          p |-> exponentAt(s, e0,
                           IF e0 + 1 <= Len(s) /\ s[e0 + 1] \in {"-", "+"}
                           THEN e0 + 2 ELSE e0 + 1) - nFrac]

\* the fraction after the nInt integer digits at i1
floatFraction(s, sgn, i1, nInt, dot) ==
    floatValue(s, sgn, i1, nInt,
               IF dot THEN Run(s, i1 + nInt + 1, IsDigit) ELSE 0,
               i1 + nInt + (IF dot THEN 1 + Run(s, i1 + nInt + 1, IsDigit) ELSE 0))

\* the digits at i1, after the sign
floatDigits(s, sgn, i1, nInt) ==
    floatFraction(s, sgn, i1, nInt, i1 + nInt <= Len(s) /\ s[i1 + nInt] = ".")

\* the sign at i0, after the white space
floatSigned(s, i0) ==
    floatDigits(s,
                IF i0 <= Len(s) /\ s[i0] = "-" THEN -1 ELSE 1,
                IF i0 <= Len(s) /\ s[i0] \in {"-", "+"} THEN i0 + 1 ELSE i0,
                Run(s, IF i0 <= Len(s) /\ s[i0] \in {"-", "+"} THEN i0 + 1 ELSE i0,
                    IsDigit))

parseFloat(s) == floatSigned(s, 1 + Run(s, 1, IsSpace))

\* x > y for two results of parseFloat; a comparison with NaN is false
GreaterThan(x, y) ==
    LET low == IF x.p < y.p THEN x.p ELSE y.p
    IN  /\ ~x.nan
        /\ ~y.nan
        /\ x.m * Pow10(x.p - low) > y.m * Pow10(y.p - low)

\* value.toLowerCase() raises a TypeError when parts[2] is undefined
conditionThrows(condition) == condition # <<>> /\ Len(split(condition)) < 3

\* the switch of lines 199-217 on the lower-cased operands
compare(fieldValue, operator, compareValue) ==
    CASE operator = <<"=">> -> fieldValue = compareValue
      [] operator = <<">">> ->
            GreaterThan(parseFloat(fieldValue), parseFloat(compareValue))
      [] operator = <<"<">> ->
            GreaterThan(parseFloat(compareValue), parseFloat(fieldValue))
      [] operator = <<"c","o","n","t","a","i","n","s">> ->
            includes(fieldValue, compareValue)
      [] operator = <<"s","t","a","r","t","s">> ->
            startsWith(fieldValue, compareValue)
      [] operator = <<"e","n","d","s">> ->
            endsWith(fieldValue, compareValue)
      [] OTHER -> FALSE

\* const [field, operator, value] = parts; String(row[field] || '').toLowerCase()
compareParts(row, parts) ==
    compare(toLowerCase(IF Truthy(Get(row, parts[1]))
                        THEN String(Get(row, parts[1])) ELSE <<>>),
            parts[2],
            toLowerCase(parts[3]))

\* evaluateCondition(row, condition), for a condition that does not throw
evaluateCondition(row, condition) ==
    IF condition = <<>> THEN TRUE ELSE compareParts(row, split(condition))

\* stringValue.split(/\s+/).filter(word => word.length > 0).length
wordCount(s) ==
    Cardinality({i \in 1..Len(s) : ~IsSpace(s[i]) /\ (i = 1 \/ IsSpace(s[i - 1]))})

\* transformValue with a trim that drops one space at each end
transformValueTrimmingOne(value, transformType) ==
    IF toLowerCase(transformType) = <<"t","r","i","m">>
    THEN StrVal(SubSeq(String(value),
                       IF String(value) # <<>> /\ Head(String(value)) = " " THEN 2 ELSE 1,
                       IF Len(String(value)) > 1 /\ String(value)[Len(String(value))] = " "
                       THEN Len(String(value)) - 1 ELSE Len(String(value))))
    ELSE value

\* transformValue(value, transformType)
transformValue(value, transformType) ==
    LET stringValue == String(value)
        t == toLowerCase(transformType)
    IN  CASE t = <<"u","p","p","e","r","c","a","s","e">> ->
                StrVal(toUpperCase(stringValue))
          [] t = <<"l","o","w","e","r","c","a","s","e">> ->
                StrVal(toLowerCase(stringValue))
          [] t = <<"c","a","p","i","t","a","l","i","z","e">> ->
                StrVal(toUpperCase(SubSeq(stringValue, 1, 1))
                       \o toLowerCase(SubSeq(stringValue, 2, Len(stringValue))))
          [] t = <<"t","r","i","m">> -> StrVal(trim(stringValue))
          [] t = <<"r","e","v","e","r","s","e">> ->
                StrVal([i \in 1..Len(stringValue) |->
                           stringValue[Len(stringValue) + 1 - i]])
          [] t = <<"l","e","n","g","t","h">> -> NumVal(Len(stringValue))
          [] t = <<"w","o","r","d","c","o","u","n","t">> ->
                NumVal(wordCount(stringValue))
          [] OTHER -> value

\* ------------------------------------------------------------------------
\* NaturalLanguageDataModifier: applyModification
\* ------------------------------------------------------------------------

\* condition.split(' ')[2], '' standing for undefined: new RegExp(undefined)
\* and new RegExp('') are both the empty pattern (?:)
replacePattern(condition) ==
    IF Len(split(condition)) >= 3 THEN split(condition)[3] ELSE <<>>

\* new RegExp(pattern, 'gi') raises a SyntaxError for an unterminated group;
\* the alphabet of the commands has no ")" and no other character that makes
\* a pattern invalid
regExpThrows(pattern) == "(" \in Range(pattern)

\* the pattern matches s at position i, ignoring case; "." matches any character
PatternAt(s, pattern, i) ==
    /\ i + Len(pattern) - 1 <= Len(s)
    /\ \A j \in 1..Len(pattern) :
          \/ pattern[j] = "."
          \/ toLowerChar(s[i + j - 1]) = toLowerChar(pattern[j])

\* s.replace(new RegExp(pattern, 'gi'), by) from position i on
RECURSIVE replaceFrom(_, _, _, _)
replaceFrom(s, pattern, by, i) ==
    IF pattern = <<>>
    THEN IF i > Len(s) THEN by
         ELSE by \o <<s[i]>> \o replaceFrom(s, pattern, by, i + 1)
    ELSE IF i > Len(s) THEN <<>>
    ELSE IF PatternAt(s, pattern, i)
    THEN by \o replaceFrom(s, pattern, by, i + Len(pattern))
    ELSE <<s[i]>> \o replaceFrom(s, pattern, by, i + 1)

replaceAll(s, pattern, by) == replaceFrom(s, pattern, by, 1)

\* rowSelected with the two tests joined by && instead of ||
rowSelectedBoth(data, modification, i) ==
    /\ i \in Range(modification.affectedRows)
    /\ modification.condition # <<>>
    /\ evaluateCondition(data[i], modification.condition)

\* the test of lines 130-131, 139-140, 155-156 and 169-170 on row index + 1 = i
rowSelected(data, modification, i) ==
    \/ i \in Range(modification.affectedRows)
    \/ /\ modification.condition # <<>>
       /\ evaluateCondition(data[i], modification.condition)

\* evaluateCondition is reached for some row and throws
selectionThrows(data, modification) ==
    /\ conditionThrows(modification.condition)
    /\ \E i \in 1..Len(data) : i \notin Range(modification.affectedRows)

\* applyUpdate without the test of lines 130-131: every row is updated
applyUpdateOfAll(data, modification) ==
    [i \in 1..Len(data) |->
        Put(data[i], modification.field, StrVal(modification.newValue))]

\* case 'update'
applyUpdate(data, modification) ==
    [i \in 1..Len(data) |->
        IF rowSelected(data, modification, i)
        THEN Put(data[i], modification.field, StrVal(modification.newValue))
        ELSE data[i]]

\* applyDelete with the results of the filter callback exchanged
applyDeleteKeepingSelected(data, modification) ==
    LET keep == SortedSeq({i \in 1..Len(data) : rowSelected(data, modification, i)})
    IN  [j \in 1..Len(keep) |-> data[keep[j]]]

\* case 'delete'
applyDelete(data, modification) ==
    LET keep == SortedSeq({i \in 1..Len(data) : ~rowSelected(data, modification, i)})
    IN  [j \in 1..Len(keep) |-> data[keep[j]]]

\* applyAdd with a new row that holds the record's field only
applyAddFieldOnly(data, modification) ==
    Append(data, <<[k |-> modification.field, v |-> StrVal(modification.newValue)]>>)

\* case 'add'
applyAdd(data, modification) ==
    LET fields == availableFields(data)
        newRow == [j \in 1..Len(fields) |->
                      [k |-> fields[j],
                       v |-> StrVal(IF fields[j] = modification.field
                                    THEN modification.newValue ELSE <<>>)]]
    IN  Append(data, newRow)

\* case 'replace'
applyReplace(data, modification) ==
    [i \in 1..Len(data) |->
        IF rowSelected(data, modification, i)
        THEN Put(data[i], modification.field,
                 StrVal(replaceAll(String(Get(data[i], modification.field)),
                                   replacePattern(modification.condition),
                                   modification.newValue)))
        ELSE data[i]]

\* case 'transform'
applyTransform(data, modification) ==
    [i \in 1..Len(data) |->
        IF rowSelected(data, modification, i)
        THEN Put(data[i], modification.field,
                 transformValue(Get(data[i], modification.field), modification.newValue))
        ELSE data[i]]

\* an exception is raised inside the try block of applyModification
applyThrows(data, modification) ==
    \/ /\ modification.operation \in {"update", "delete", "replace", "transform"}
       /\ selectionThrows(data, modification)
    \/ /\ modification.operation = "replace"
       /\ regExpThrows(replacePattern(modification.condition))
       /\ \E i \in 1..Len(data) : rowSelected(data, modification, i)

\* applyModification(modification): the returned array; when the try block
\* throws, the catch falls through to "return newData", the copy of data
applyModification(data, modification) ==
    IF applyThrows(data, modification) THEN data
    ELSE CASE modification.operation = "update"    -> applyUpdate(data, modification)
           [] modification.operation = "delete"    -> applyDelete(data, modification)
           [] modification.operation = "add"       -> applyAdd(data, modification)
           [] modification.operation = "replace"   -> applyReplace(data, modification)
           [] modification.operation = "transform" -> applyTransform(data, modification)
           [] OTHER -> data

\* ------------------------------------------------------------------------
\* applyModification on objects: the rows are objects 1..Len(data) of a heap,
\* an array is a sequence of references to them
\* ------------------------------------------------------------------------

\* row[field] = value; return row
assignedRow(objects, ref, field, value) ==
    [objects |-> [objects EXCEPT ![ref] = Put(objects[ref], field, value)],
     ref     |-> ref]

\* { ...row, [field]: value }: a new object
spreadRow(objects, ref, field, value) ==
    [objects |-> Append(objects, Put(objects[ref], field, value)),
     ref     |-> Len(objects) + 1]

\* newData.map(callback) from row i on, out being the references returned so
\* far: a selected row is spread into a new object that holds the value the
\* operation stores in the field, any other row is returned itself
RECURSIVE mapRows(_, _, _, _, _)
RECURSIVE mapStored(_, _, _, _, _)
mapRows(objects, data, modification, i, out) ==
    IF i > Len(data) THEN [objects |-> objects, output |-> out]
    ELSE IF rowSelected(data, modification, i)
    THEN mapStored(spreadRow(objects, i, modification.field,
                             Get(applyModification(data, modification)[i],
                                 modification.field)),
                   data, modification, i, out)
    ELSE mapRows(objects, data, modification, i + 1, Append(out, i))

mapStored(stored, data, modification, i, out) ==
    mapRows(stored.objects, data, modification, i + 1, Append(out, stored.ref))

\* the references 1..n in order: [...data]
references(n) == [i \in 1..n |-> i]

\* the heap with its input and returned arrays
heapWith(heap, input, returned) ==
    [objects  |-> heap.objects,
     input    |-> input,
     output   |-> heap.output,
     returned |-> returned]

\* applyModification(modification) on the heap of the rows of data: the
\* objects after the call, the array data after the call, the array that is
\* returned and the expression that made it
applyOnHeap(data, modification) ==
    IF applyThrows(data, modification)
    THEN heapWith([objects |-> data, output |-> references(Len(data))],
                  references(Len(data)), "newData")
    ELSE CASE modification.operation \in {"update", "replace", "transform"} ->
                heapWith(mapRows(data, data, modification, 1, <<>>),
                         references(Len(data)), "map")
           [] modification.operation = "delete" ->
                heapWith([objects |-> data,
                          output  |-> SortedSeq({i \in 1..Len(data) :
                                          ~rowSelected(data, modification, i)})],
                         references(Len(data)), "filter")
           [] modification.operation = "add" ->
                heapWith([objects |-> applyAdd(data, modification),
                          output  |-> references(Len(data) + 1)],
                         references(Len(data)), "spread")
           [] OTHER ->
                heapWith([objects |-> data, output |-> references(Len(data))],
                         references(Len(data)), "newData")

\* ------------------------------------------------------------------------
\* Inputs: the tables the file uploaders deliver and the phrases typed
\* ------------------------------------------------------------------------

\* [{name:"John Doe", email:"j@x.com"}, {name:"Jane", email:"a@x.com"}]
TwoClients ==
    << << [k |-> <<"n","a","m","e">>,
            v |-> StrVal(<<"J","o","h","n"," ","D","o","e">>)],
           [k |-> <<"e","m","a","i","l">>,
            v |-> StrVal(<<"j","@","x",".","c","o","m">>)] >>,

       << [k |-> <<"n","a","m","e">>,
            v |-> StrVal(<<"J","a","n","e">>)],
           [k |-> <<"e","m","a","i","l">>,
            v |-> StrVal(<<"a","@","x",".","c","o","m">>)] >> >>

\* [{name:"John Doe", email:"j@x.com"}, {name:"jane", email:""}, {name:"Bo", email:"b@x.com"}]
ThreeClients ==
    << << [k |-> <<"n","a","m","e">>,
            v |-> StrVal(<<"J","o","h","n"," ","D","o","e">>)],
           [k |-> <<"e","m","a","i","l">>,
            v |-> StrVal(<<"j","@","x",".","c","o","m">>)] >>,

       << [k |-> <<"n","a","m","e">>,
            v |-> StrVal(<<"j","a","n","e">>)],
           [k |-> <<"e","m","a","i","l">>,
            v |-> StrVal(<<>>)] >>,

       << [k |-> <<"n","a","m","e">>,
            v |-> StrVal(<<"B","o">>)],
           [k |-> <<"e","m","a","i","l">>,
            v |-> StrVal(<<"b","@","x",".","c","o","m">>)] >> >>

\* [{name:"John Middle Doe"}]
OneWorker ==
    << << [k |-> <<"n","a","m","e">>,
            v |-> StrVal(<<"J","o","h","n"," ","M","i","d","d","l","e"," ","D","o","e">>)] >> >>

\* [{title:"Fix", hours:0, done:false}, {title:"Row 2", hours:12}]
TwoTasks ==
    << << [k |-> <<"t","i","t","l","e">>,
            v |-> StrVal(<<"F","i","x">>)],
           [k |-> <<"h","o","u","r","s">>,
            v |-> NumVal(0)],
           [k |-> <<"d","o","n","e">>,
            v |-> BoolVal(FALSE)] >>,

       << [k |-> <<"t","i","t","l","e">>,
            v |-> StrVal(<<"R","o","w"," ","2">>)],
           [k |-> <<"h","o","u","r","s">>,
            v |-> NumVal(12)] >> >>

\* Update email field to uppercase where name contains John
UpdateEmailPhrase ==
    <<"U","p","d","a","t","e"," ","e","m","a","i","l"," ","f","i","e","l",
      "d"," ","t","o"," ","u","p","p","e","r","c","a","s","e"," ","w","h",
      "e","r","e"," ","n","a","m","e"," ","c","o","n","t","a","i","n","s",
      " ","J","o","h","n">>

\* Transform name field to wordcount
WordcountPhrase ==
    <<"T","r","a","n","s","f","o","r","m"," ","n","a","m","e"," ","f","i",
      "e","l","d"," ","t","o"," ","w","o","r","d","c","o","u","n","t">>

\* Delete row 2
DeleteRowPhrase ==
    <<"D","e","l","e","t","e"," ","r","o","w"," ","2">>

\* replace name with "x" row 1 where name contains (
BadPatternPhrase ==
    <<"r","e","p","l","a","c","e"," ","n","a","m","e"," ","w","i","t","h",
      " ","\"","x","\""," ","r","o","w"," ","1"," ","w","h","e","r","e"," ",
      "n","a","m","e"," ","c","o","n","t","a","i","n","s"," ","(">>

\* replace name with "x" row 1
ReplaceRowPhrase ==
    <<"r","e","p","l","a","c","e"," ","n","a","m","e"," ","w","i","t","h",
      " ","\"","x","\""," ","r","o","w"," ","1">>

\* replace name with "x" where name contains jo
ReplaceWherePhrase ==
    <<"r","e","p","l","a","c","e"," ","n","a","m","e"," ","w","i","t","h",
      " ","\"","x","\""," ","w","h","e","r","e"," ","n","a","m","e"," ","c",
      "o","n","t","a","i","n","s"," ","j","o">>

\* delete name row 3 where name = jane
DeleteWherePhrase ==
    <<"d","e","l","e","t","e"," ","n","a","m","e"," ","r","o","w"," ","3",
      " ","w","h","e","r","e"," ","n","a","m","e"," ","="," ","j","a","n",
      "e">>

\* Add new row with name John
AddPhrase ==
    <<"A","d","d"," ","n","e","w"," ","r","o","w"," ","w","i","t","h"," ",
      "n","a","m","e"," ","J","o","h","n">>

\* add name row 1 where name contains j
AddWherePhrase ==
    <<"a","d","d"," ","n","a","m","e"," ","r","o","w"," ","1"," ","w","h",
      "e","r","e"," ","n","a","m","e"," ","c","o","n","t","a","i","n","s",
      " ","j">>

\* set title to "y" row 2 where hours > 5
UpdatePhrase ==
    <<"s","e","t"," ","t","i","t","l","e"," ","t","o"," ","\"","y","\""," ",
      "r","o","w"," ","2"," ","w","h","e","r","e"," ","h","o","u","r","s",
      " ",">"," ","5">>

\* xyz
UnknownPhrase ==
    <<"x","y","z">>

\* the phrases typed while the host is explored
TypedCommands == {BadPatternPhrase, DeleteWherePhrase}

\* the tables a command is processed on
Tables == {TwoClients, ThreeClients, OneWorker, TwoTasks}

Commands ==
    {UpdateEmailPhrase,
     WordcountPhrase,
     DeleteRowPhrase,
     BadPatternPhrase,
     ReplaceRowPhrase,
     ReplaceWherePhrase,
     DeleteWherePhrase,
     AddPhrase,
     AddWherePhrase,
     UpdatePhrase,
     UnknownPhrase}

\* ------------------------------------------------------------------------
\* State
\* ------------------------------------------------------------------------

\* the most submissions (commands and rule phrases) of one behaviour
MaxSubmissions == 2

VARIABLES
    clients, workers, tasks,   \* Home: the three datasets, <<>> for null or []
    tabValue,                  \* Home: the selected tab
    activeDataset,             \* Home: the selected dataset
    command,                   \* modifier: the text of the command box
    modifications,             \* modifier: the history, newest first
    isProcessing,              \* modifier: the busy flag
    previewMode,               \* modifier: 'Preview First' is selected
    errorMessage,              \* modifier: what setError was last called with
    naturalLanguageInput,      \* rule builder: the text of the phrase box
    rules,                     \* rule builder: the rule list
    newRule,                   \* rule builder: the form of the manual rule
    query,                     \* search: the text of the query box
    results,                   \* search: the result list
    isSearching,               \* search: the busy flag
    searchError,               \* search: the error state, NoError for null
    validationErrors,          \* validation: the issues of the last run
    isValidating,              \* validation: the busy flag
    now                        \* Date.now()

hostVars == <<clients, workers, tasks, tabValue, activeDataset>>
modifierVars == <<command, modifications, isProcessing, previewMode, errorMessage>>
ruleVars == <<naturalLanguageInput, rules, newRule>>
searchVars == <<query, results, isSearching, searchError>>
validationVars == <<validationErrors, isValidating>>
inspectVars == <<searchVars, validationVars>>
vars == <<hostVars, modifierVars, ruleVars, inspectVars, now>>

DatasetNames == {"clients", "workers", "tasks"}

\* the file dropped on each uploader
Uploads(name) ==
    CASE name = "clients" -> {ThreeClients}
      [] name = "workers" -> {OneWorker}
      [] name = "tasks"   -> {TwoTasks}

DataGridTab   == 0
ValidationTab == 1
SearchTab     == 2
RulesTab      == 3
PrioritiesTab == 4
ModifierTab   == 5
AssistantTab  == 6

\* ------------------------------------------------------------------------
\* Home (page.tsx)
\* ------------------------------------------------------------------------

\* getActiveData() || []
getActiveData ==
    CASE activeDataset = "clients" -> clients
      [] activeDataset = "workers" -> workers
      [] activeDataset = "tasks"   -> tasks
      [] OTHER -> clients

totalRecords == Len(clients) + Len(workers) + Len(tasks)

\* the tab panel of a component is rendered, so the component holds state
modifierMounted == totalRecords > 0 /\ tabValue = ModifierTab
ruleBuilderMounted == totalRecords > 0 /\ tabValue = RulesTab
searchMounted == totalRecords > 0 /\ tabValue = SearchTab
validationMounted == totalRecords > 0 /\ tabValue = ValidationTab

\* useState of RuleBuilder's newRule (lines 116-125)
InitialNewRule ==
    [name |-> <<>>, description |-> <<>>, field |-> <<>>, operator |-> "equals",
     value |-> <<>>, action |-> "flag", priority |-> 1, isActive |-> TRUE]

\* The state of the panels after a step of the host: a component that is
\* still rendered keeps the state given here, one that is not rendered is
\* unmounted and starts from its initial state when rendered again.
Render(cmd, mods, preview, input, rls) ==
    /\ IF modifierMounted'
       THEN command' = cmd /\ modifications' = mods /\ previewMode' = preview
       ELSE command' = <<>> /\ modifications' = <<>> /\ previewMode' = FALSE
    /\ isProcessing' = FALSE
    /\ errorMessage' = IF modifierMounted' THEN errorMessage ELSE NoError
    /\ IF ruleBuilderMounted'
       THEN naturalLanguageInput' = input /\ rules' = rls /\ newRule' = newRule
       ELSE naturalLanguageInput' = <<>> /\ rules' = <<>> /\ newRule' = InitialNewRule
    /\ IF searchMounted'
       THEN UNCHANGED searchVars
       ELSE query' = <<>> /\ results' = <<>> /\ isSearching' = FALSE
            /\ searchError' = NoError
    /\ IF validationMounted'
       THEN UNCHANGED validationVars
       ELSE validationErrors' = <<>> /\ isValidating' = FALSE

KeepPanels == Render(command, modifications, previewMode, naturalLanguageInput, rules)

\* handleDataChange that stores the table in all three datasets
handleDataChangeOfAll(newData) ==
    clients' = newData /\ workers' = newData /\ tasks' = newData

\* handleDataChange(newData)
handleDataChange(newData) ==
    CASE activeDataset = "clients" ->
            clients' = newData /\ UNCHANGED <<workers, tasks>>
      [] activeDataset = "workers" ->
            workers' = newData /\ UNCHANGED <<clients, tasks>>
      [] activeDataset = "tasks" ->
            tasks' = newData /\ UNCHANGED <<clients, workers>>
      [] OTHER -> UNCHANGED <<clients, workers, tasks>>

\* FileUploader onData: setClients / setWorkers / setTasks.  A file is
\* dropped on an uploader whose dataset is still empty.
Upload(name, table) ==
    /\ CASE name = "clients" ->
              clients = <<>> /\ clients' = table /\ UNCHANGED <<workers, tasks>>
         [] name = "workers" ->
              workers = <<>> /\ workers' = table /\ UNCHANGED <<clients, tasks>>
         [] name = "tasks" ->
              tasks = <<>> /\ tasks' = table /\ UNCHANGED <<clients, workers>>
    /\ UNCHANGED <<tabValue, activeDataset, now>>
    /\ KeepPanels

\* the dataset buttons: onClick={() => setActiveDataset(name)}
setActiveDataset(name) ==
    /\ totalRecords > 0
    /\ CASE name = "clients" -> clients # <<>>
         [] name = "workers" -> workers # <<>>
         [] name = "tasks"   -> tasks # <<>>
    /\ activeDataset # name
    /\ activeDataset' = name
    /\ UNCHANGED <<clients, workers, tasks, tabValue, now>>
    /\ KeepPanels

\* handleTabChange(event, newValue)
handleTabChange(newValue) ==
    /\ totalRecords > 0
    /\ tabValue # newValue
    /\ tabValue' = newValue
    /\ UNCHANGED <<clients, workers, tasks, activeDataset, now>>
    /\ KeepPanels

\* ------------------------------------------------------------------------
\* NaturalLanguageDataModifier: the handlers
\* ------------------------------------------------------------------------

\* the panel shows its controls (line 335 returns the empty card otherwise)
modifierShown == modifierMounted /\ Len(getActiveData) > 0

\* onChange={(e) => setCommand(e.target.value)} and the example chips
setCommand(text) ==
    /\ modifierShown
    /\ ~isProcessing
    /\ command # text
    /\ command' = text
    /\ UNCHANGED <<hostVars, modifications, isProcessing, previewMode, errorMessage,
                   ruleVars, inspectVars, now>>

\* onChange={(e) => setPreviewMode(e.target.value === 'preview')}
setPreviewMode(value) ==
    /\ modifierShown
    /\ previewMode # value
    /\ previewMode' = value
    /\ UNCHANGED <<hostVars, command, modifications, isProcessing, errorMessage,
                   ruleVars, inspectVars, now>>

\* lines 270-280: the positions selected in data when previewMode is on
previewRows(data, modification) ==
    SortedSeq({i \in 1..Len(data) : rowSelected(data, modification, i)})

\* the record built by lines 257-280 from a successful parse
newModification(parsed, text, data, preview, id) ==
    LET modification ==
            [id |-> id,
             command |-> text,
             operation |-> parsed.operation,
             field |-> parsed.field,
             condition |-> parsed.condition,
             newValue |-> parsed.newValue,
             affectedRows |-> parsed.affectedRows,
             status |-> "pending"]
    IN  IF preview
        THEN [modification EXCEPT !.affectedRows = previewRows(data, modification)]
        ELSE modification

\* processCommand: parseCommand is called without the setError callback
processCommand ==
    /\ modifierShown
    /\ ~isProcessing
    /\ trim(command) # <<>>
    /\ now < MaxSubmissions
    /\ now' = now + 1
    /\ \E parsed \in {parseCommand(command, availableFields(getActiveData), FALSE)} :
          IF ~parsed.ok
          THEN /\ errorMessage' = IF parsed.error # NoError THEN parsed.error
                                  ELSE errorMessage
               /\ UNCHANGED <<command, modifications>>
          ELSE /\ modifications' =
                      <<newModification(parsed, command, getActiveData, previewMode,
                                        NatToString(now + 1))>> \o modifications
               /\ command' = <<>>
               /\ UNCHANGED errorMessage
    /\ isProcessing' = FALSE
    /\ UNCHANGED <<hostVars, previewMode, ruleVars, inspectVars>>

\* setStatus without the comparison of ids
setStatusOfAll(mods, id, status) ==
    [i \in 1..Len(mods) |-> [mods[i] EXCEPT !.status = status]]

\* setModifications(prev => prev.map(mod => mod.id === id ? {...mod, status} : mod))
setStatus(mods, id, status) ==
    [i \in 1..Len(mods) |->
        IF mods[i].id = id THEN [mods[i] EXCEPT !.status = status] ELSE mods[i]]

\* The updaters applyModificationToData queues, applied in order: the one of
\* the catch block of applyModification (line 181) when the try block threw,
\* then the one of line 299.  onDataChange does not throw, so the catch block
\* of line 304 is not entered.
statusUpdates(mods, modification, threw) ==
    LET afterCatch == IF threw THEN setStatus(mods, modification.id, "failed") ELSE mods
    IN  setStatus(afterCatch, modification.id, "applied")

\* applyModificationToData(modification), the "Apply Modification" button of
\* a pending record
applyModificationToData(i) ==
    /\ modifierShown
    /\ i \in 1..Len(modifications)
    /\ modifications[i].status = "pending"
    /\ handleDataChange(applyModification(getActiveData, modifications[i]))
    /\ UNCHANGED <<tabValue, activeDataset, now>>
    /\ Render(command,
              statusUpdates(modifications, modifications[i],
                            applyThrows(getActiveData, modifications[i])),
              previewMode, naturalLanguageInput, rules)

\* ------------------------------------------------------------------------
\* RuleBuilder: processNaturalLanguage
\* ------------------------------------------------------------------------

\* Email field must contain "@"
EmailRulePhrase ==
    <<"E","m","a","i","l"," ","f","i","e","l","d"," ","m","u","s","t"," ",
      "c","o","n","t","a","i","n"," ","\"","@","\"">>

\* Phone numbers cannot be empty
PhoneRulePhrase ==
    <<"P","h","o","n","e"," ","n","u","m","b","e","r","s"," ","c","a","n",
      "n","o","t"," ","b","e"," ","e","m","p","t","y">>

RulePhrases == {EmailRulePhrase, PhoneRulePhrase}

\* operatorMap, in the order Object.entries reports its keys
operatorMap ==
    << [phrase |-> <<"m","u","s","t"," ","b","e">>,
        operator |-> "equals"],
       [phrase |-> <<"s","h","o","u","l","d"," ","b","e">>,
        operator |-> "equals"],
       [phrase |-> <<"c","a","n","n","o","t"," ","b","e">>,
        operator |-> "not_equals"],
       [phrase |-> <<"m","u","s","t"," ","c","o","n","t","a","i","n">>,
        operator |-> "contains"],
       [phrase |-> <<"c","a","n","n","o","t"," ","c","o","n","t","a","i","n">>,
        operator |-> "not_contains"],
       [phrase |-> <<"m","u","s","t"," ","s","t","a","r","t"," ","w","i","t","h">>,
        operator |-> "starts_with"],
       [phrase |-> <<"m","u","s","t"," ","e","n","d"," ","w","i","t","h">>,
        operator |-> "ends_with"],
       [phrase |-> <<"m","u","s","t"," ","b","e"," ","g","r","e","a","t","e","r"," ","t","h","a","n">>,
        operator |-> "greater_than"],
       [phrase |-> <<"m","u","s","t"," ","b","e"," ","l","e","s","s"," ","t","h","a","n">>,
        operator |-> "less_than"],
       [phrase |-> <<"c","a","n","n","o","t"," ","b","e"," ","e","m","p","t","y">>,
        operator |-> "is_not_empty"],
       [phrase |-> <<"m","u","s","t"," ","b","e"," ","e","m","p","t","y">>,
        operator |-> "is_empty"] >>

\* the first entry of operatorMap whose phrase occurs in input, else 'equals'
detectOperator(input) ==
    LET hits == {i \in 1..Len(operatorMap) : includes(input, operatorMap[i].phrase)}
    IN  IF hits = {} THEN "equals" ELSE operatorMap[Min(hits)].operator

\* input.match(/"([^"]+)"/): valueMatch ? valueMatch[1] : ''
NotDoubleQuote(c) == c # "\""

extractValue(input) ==
    LET ps == {p \in 1..Len(input) :
                  /\ input[p] = "\""
                  /\ Run(input, p + 1, NotDoubleQuote) >= 1
                  /\ p + 1 + Run(input, p + 1, NotDoubleQuote) <= Len(input)}
    IN  IF ps = {} THEN <<>>
        ELSE Sub(input, Min(ps) + 1, Run(input, Min(ps) + 1, NotDoubleQuote))

\* availableFields.filter(field => input.includes(field.toLowerCase()))
fieldMatches(fields, input) ==
    LET hits == SortedSeq({i \in 1..Len(fields) : includes(input, toLowerCase(fields[i]))})
    IN  [j \in 1..Len(hits) |-> fields[hits[j]]]

\* the rules pushed by lines 199-211; index counts from 0
newRules(text, fields, count, time) ==
    LET input   == toLowerCase(text)
        matches == fieldMatches(fields, input)
    IN  [j \in 1..Len(matches) |->
            [id          |-> NatToString(time) \o NatToString(j - 1),
             name        |-> <<"R","u","l","e"," ">> \o NatToString(count + j),
             description |-> text,
             field       |-> matches[j],
             operator    |-> detectOperator(input),
             value       |-> extractValue(input),
             action      |-> "flag",
             priority    |-> count + j,
             isActive    |-> TRUE]]

\* the panel shows its controls (line 274 returns the empty card otherwise)
ruleBuilderShown == ruleBuilderMounted /\ Len(getActiveData) > 0

\* onChange={(e) => setNaturalLanguageInput(e.target.value)}
setNaturalLanguageInput(text) ==
    /\ ruleBuilderShown
    /\ naturalLanguageInput # text
    /\ naturalLanguageInput' = text
    /\ UNCHANGED <<hostVars, modifierVars, rules, newRule, inspectVars, now>>

\* processNaturalLanguage, the "Create Rule" button
processNaturalLanguage ==
    /\ ruleBuilderShown
    /\ trim(naturalLanguageInput) # <<>>
    /\ now < MaxSubmissions
    /\ now' = now + 1
    /\ rules' = rules \o newRules(naturalLanguageInput,
                                  availableFields(getActiveData), Len(rules), now')
    /\ naturalLanguageInput' = <<>>
    /\ UNCHANGED <<hostVars, modifierVars, newRule, inspectVars>>

\* ------------------------------------------------------------------------
\* RuleBuilder: the manual form and the rule list
\* ------------------------------------------------------------------------

\* the values typed or selected in the manual form
FormNames == { <<"C","h","e","c","k">> }
FormOperators == {"is_empty"}

\* onChange of the form controls: setNewRule({ ...newRule, [key]: value })
setNewRule(key, value) ==
    /\ ruleBuilderShown
    /\ newRule[key] # value
    /\ newRule' = [newRule EXCEPT ![key] = value]
    /\ UNCHANGED <<hostVars, modifierVars, naturalLanguageInput, rules, inspectVars, now>>

\* x || otherwise for a string x
orElse(x, otherwise) == IF x # <<>> THEN x ELSE otherwise

\* the rule built by lines 231-241 from the form, Date.now() being time
ruleOfForm(form, time) ==
    [id          |-> NatToString(time),
     name        |-> form.name,
     description |-> orElse(form.description, <<>>),
     field       |-> form.field,
     operator    |-> IF form.operator # "" THEN form.operator ELSE "equals",
     value       |-> orElse(form.value, <<>>),
     action      |-> IF form.action # "" THEN form.action ELSE "flag",
     priority    |-> IF form.priority # 0 THEN form.priority ELSE 1,
     isActive    |-> form.isActive # FALSE]

\* addRule, the "Add Rule" button
addRule ==
    /\ ruleBuilderShown
    /\ newRule.name # <<>>
    /\ newRule.field # <<>>
    /\ now < MaxSubmissions
    /\ now' = now + 1
    /\ rules' = Append(rules, ruleOfForm(newRule, now + 1))
    /\ newRule' = [InitialNewRule EXCEPT !.priority = Len(rules) + 1]
    /\ UNCHANGED <<hostVars, modifierVars, naturalLanguageInput, inspectVars>>

\* rules.filter(rule => rule.id !== id)
withoutRule(rls, id) ==
    LET keep == SortedSeq({i \in 1..Len(rls) : rls[i].id # id})
    IN  [j \in 1..Len(keep) |-> rls[keep[j]]]

\* deleteRule(id), the "Delete" button of a rule
deleteRule(id) ==
    /\ ruleBuilderShown
    /\ \E i \in 1..Len(rules) : rules[i].id = id
    /\ rules' = withoutRule(rules, id)
    /\ UNCHANGED <<hostVars, modifierVars, naturalLanguageInput, newRule, inspectVars, now>>

\* rules.map(rule => rule.id === id ? { ...rule, isActive: !rule.isActive } : rule)
toggled(rls, id) ==
    [i \in 1..Len(rls) |->
        IF rls[i].id = id THEN [rls[i] EXCEPT !.isActive = ~rls[i].isActive] ELSE rls[i]]

\* toggleRule(id), the "Disable" / "Enable" button of a rule
toggleRule(id) ==
    /\ ruleBuilderShown
    /\ \E i \in 1..Len(rules) : rules[i].id = id
    /\ rules' = toggled(rules, id)
    /\ UNCHANGED <<hostVars, modifierVars, naturalLanguageInput, newRule, inspectVars, now>>

\* ------------------------------------------------------------------------
\* ValidationPanel: generateSchema and validateData (zod)
\* ------------------------------------------------------------------------

\* the end of a decimal literal whose digits stop before position e: the end
\* of the string or an exponent that reaches it
numericEnd(t, nDigits, e, x) ==
    /\ nDigits >= 1
    /\ \/ e > Len(t)
       \/ /\ t[e] \in {"e", "E"}
          /\ Run(t, x, IsDigit) >= 1
          /\ x + Run(t, x, IsDigit) > Len(t)

\* the fraction of a decimal literal with nInt integer digits at i
numericFraction(t, i, nInt, nFrac) ==
    IF i + nInt <= Len(t) /\ t[i + nInt] = "."
    THEN numericEnd(t, nInt + nFrac, i + nInt + 1 + nFrac,
                    IF i + nInt + 2 + nFrac <= Len(t)
                       /\ t[i + nInt + 2 + nFrac] \in {"+", "-"}
                    THEN i + nInt + 3 + nFrac ELSE i + nInt + 2 + nFrac)
    ELSE numericEnd(t, nInt, i + nInt,
                    IF i + nInt + 1 <= Len(t) /\ t[i + nInt + 1] \in {"+", "-"}
                    THEN i + nInt + 2 ELSE i + nInt + 1)

\* the digits of a decimal literal at i, after the sign
numericDigits(t, i, nInt) ==
    numericFraction(t, i, nInt, Run(t, i + nInt + 1, IsDigit))

\* Number(t) is a number for the trimmed string t: the empty string (0) or a
\* signed decimal literal; the tables hold no Infinity and no 0x, 0o or 0b
\* literal
IsNumericLiteral(t) ==
    \/ t = <<>>
    \/ numericDigits(t, IF t[1] \in {"+", "-"} THEN 2 ELSE 1,
                     Run(t, IF t[1] \in {"+", "-"} THEN 2 ELSE 1, IsDigit))

\* isNaN(Number(value))
NumberIsNaN(value) ==
    CASE value.kind = "number"    -> value.text = <<"N","a","N">>
      [] value.kind = "boolean"   -> FALSE
      [] value.kind = "undefined" -> TRUE
      [] OTHER                    -> ~IsNumericLiteral(trim(value.text))

\* the member of commonSchemas generateSchema picks for a key of the sample row
inferRule(key, value) ==
    IF includes(toLowerCase(key), <<"e","m","a","i","l">>) THEN "email"
    ELSE IF \/ includes(toLowerCase(key), <<"p","h","o","n","e">>)
            \/ includes(toLowerCase(key), <<"m","o","b","i","l","e">>) THEN "phone"
    ELSE IF includes(toLowerCase(key), <<"d","a","t","e">>) THEN "date"
    ELSE IF value.kind = "number" \/ ~NumberIsNaN(value) THEN "number"
    ELSE "required"

\* generateSchema(sampleRow): the keys of the sample row with their rules
generateSchema(sampleRow) ==
    [i \in 1..Len(sampleRow) |->
        [key |-> sampleRow[i].k, rule |-> inferRule(sampleRow[i].k, sampleRow[i].v)]]

LetterSet == LowerSet \cup UpperSet
AlnumSet == LetterSet \cup DigitSet

\* a label ([A-Z0-9][A-Z0-9\-]*) of the domain of an e-mail address
IsDomainLabel(l) ==
    /\ l # <<>>
    /\ l[1] \in AlnumSet
    /\ \A i \in 1..Len(l) : l[i] \in AlnumSet \cup {"-"}

\* the string s without its characters up to the first c
RECURSIVE splitAt(_, _)
splitAt(s, c) ==
    LET at == {i \in 1..Len(s) : s[i] = c}
    IN  IF at = {} THEN <<s>>
        ELSE <<SubSeq(s, 1, Min(at) - 1)>> \o splitAt(SubSeq(s, Min(at) + 1, Len(s)), c)

\* ([A-Z0-9][A-Z0-9\-]*\.)+[A-Z]{2,}$ on the labels of the domain
IsDomain(labels) ==
    /\ Len(labels) >= 2
    /\ \A i \in 1..(Len(labels) - 1) : IsDomainLabel(labels[i])
    /\ Len(labels[Len(labels)]) >= 2
    /\ \A i \in 1..Len(labels[Len(labels)]) : labels[Len(labels)][i] \in LetterSet

\* ([A-Z0-9_'+\-\.]*)[A-Z0-9_+-] on the part before the @
IsLocalPart(l) ==
    /\ l # <<>>
    /\ \A i \in 1..Len(l) : l[i] \in AlnumSet \cup {"_", "'", "+", "-", "."}
    /\ l[Len(l)] # "."
    /\ l[Len(l)] # "'"

\* z.string().email(): zod's pattern
\* /^(?!\.)(?!.*\.\.)([A-Z0-9_'+\-\.]*)[A-Z0-9_+-]@([A-Z0-9][A-Z0-9\-]*\.)+[A-Z]{2,}$/i
IsEmail(s) ==
    /\ s # <<>>
    /\ s[1] # "."
    /\ ~includes(s, <<".", ".">>)
    /\ Cardinality({i \in 1..Len(s) : s[i] = "@"}) = 1
    /\ IsLocalPart(splitAt(s, "@")[1])
    /\ IsDomain(splitAt(splitAt(s, "@")[2], "."))

\* /^[\+]?[1-9][\d]{0,15}$/ from position i on, after the optional +
IsPhoneFrom(s, i) ==
    /\ i <= Len(s)
    /\ s[i] \in DigitSet \ {"0"}
    /\ Len(s) - i <= 15
    /\ \A j \in i..Len(s) : s[j] \in DigitSet

IsPhone(s) == s # <<>> /\ IsPhoneFrom(s, IF s[1] = "+" THEN 2 ELSE 1)

\* the date-only form YYYY-MM-DD of the date time string format, with a day
\* every month has
IsIsoDate(s) ==
    /\ Len(s) = 10
    /\ \A i \in {1, 2, 3, 4, 6, 7, 9, 10} : s[i] \in DigitSet
    /\ s[5] = "-"
    /\ s[8] = "-"
    /\ parseInt(SubSeq(s, 6, 7)) \in 1..12
    /\ parseInt(SubSeq(s, 9, 10)) \in 1..28

\* !isNaN(Date.parse(val)).  A string in the date time string format is
\* parsed, a string without a digit is not; for any other string the result
\* is left to the implementation, and lenient tells whether it accepts it.
dateParses(val, lenient) ==
    \/ IsIsoDate(val)
    \/ lenient /\ \E i \in 1..Len(val) : val[i] \in DigitSet

NoIssue == ""

\* the message of z.string() for a value that is not a string
ExpectedString(value) ==
    CASE value.kind = "number"  -> "Expected string, received number"
      [] value.kind = "boolean" -> "Expected string, received boolean"
      [] OTHER                  -> NoIssue

\* the message of the issue commonSchemas[rule].optional() raises for value,
\* NoIssue when it accepts the value
issueOf(rule, value, lenient) ==
    IF value.kind = "undefined" THEN NoIssue
    ELSE IF rule = "number"
    THEN IF \/ value.kind = "string"
            \/ value.kind = "number" /\ value.text # <<"N","a","N">>
         THEN NoIssue ELSE "Invalid input"
    ELSE IF value.kind # "string" THEN ExpectedString(value)
    ELSE CASE rule = "email" ->
                IF IsEmail(value.text) THEN NoIssue ELSE "Invalid email format"
           [] rule = "phone" ->
                IF IsPhone(value.text) THEN NoIssue ELSE "Invalid phone number"
           [] rule = "date" ->
                IF dateParses(value.text, lenient) THEN NoIssue
                ELSE "Invalid date format"
           [] OTHER ->
                IF value.text # <<>> THEN NoIssue ELSE "This field is required"

\* the ValidationErrors pushed for one row: result.error.issues, in the order
\* of the keys of the schema
rowErrors(schema, row, rowIndex, lenient) ==
    LET failing == SortedSeq({i \in 1..Len(schema) :
                        issueOf(schema[i].rule, Get(row, schema[i].key), lenient)
                        # NoIssue})
    IN  [j \in 1..Len(failing) |->
            [field    |-> schema[failing[j]].key,
             message  |-> issueOf(schema[failing[j]].rule,
                                  Get(row, schema[failing[j]].key), lenient),
             value    |-> Get(row, schema[failing[j]].key),
             rowIndex |-> rowIndex]]

\* the errors array after data.forEach from row index on
RECURSIVE errorsFrom(_, _, _, _)
errorsFrom(data, schema, index, lenient) ==
    IF index > Len(data) THEN <<>>
    ELSE rowErrors(schema, data[index], index, lenient)
         \o errorsFrom(data, schema, index + 1, lenient)

\* the panel shows its controls (line 492 returns the empty card otherwise)
validationShown == validationMounted /\ Len(getActiveData) > 0

\* validateData, the "Validate Data" button
validateData ==
    /\ validationShown
    /\ ~isValidating
    /\ \E lenient \in BOOLEAN :
          validationErrors' =
              errorsFrom(getActiveData, generateSchema(getActiveData[1]), 1, lenient)
    /\ isValidating' = FALSE
    /\ UNCHANGED <<hostVars, modifierVars, ruleVars, searchVars, now>>

\* validationStats of a panel whose errorRows counts the issues
validationStatsCountingIssues ==
    [totalRows        |-> Len(getActiveData),
     validRows        |-> Len(getActiveData) - Len(validationErrors),
     errorRows        |-> Len(validationErrors),
     errorCount       |-> Len(validationErrors),
     fieldsWithErrors |->
         Cardinality({validationErrors[j].field : j \in 1..Len(validationErrors)})]

\* validationStats: the numbers the panel shows above the list of issues
validationStats ==
    [totalRows        |-> Len(getActiveData),
     validRows        |-> Len(getActiveData)
                          - Cardinality({validationErrors[j].rowIndex :
                                            j \in 1..Len(validationErrors)}),
     errorRows        |->
         Cardinality({validationErrors[j].rowIndex : j \in 1..Len(validationErrors)}),
     errorCount       |-> Len(validationErrors),
     fieldsWithErrors |->
         Cardinality({validationErrors[j].field : j \in 1..Len(validationErrors)})]

\* ------------------------------------------------------------------------
\* NaturalLanguageSearch: processQuery and searchData
\* ------------------------------------------------------------------------

NotSpace(c) == ~IsSpace(c)

\* word.replace(/[^\w]/g, '')
cleanWord(word) == SelectSeq(word, IsWord)

\* the cleaned words longer than two characters, in the order of words
keywordsOf(words) ==
    LET kept == SortedSeq({i \in 1..Len(words) :
                              Len(words[i]) > 0 /\ Len(cleanWord(words[i])) > 2})
    IN  [j \in 1..Len(kept) |-> cleanWord(words[kept[j]])]

\* a match of /(\w+):\s*([^\s]+)/ with n word characters at i, its value of m
\* characters at v
filterEnd(q, i, n, v, m) ==
    [ok    |-> n >= 1 /\ i + n <= Len(q) /\ q[i + n] = ":" /\ m >= 1,
     at    |-> i,
     key   |-> Sub(q, i, n),
     value |-> Sub(q, v, m),
     next  |-> v + m]

filterValue(q, i, n, v) == filterEnd(q, i, n, v, Run(q, v, NotSpace))

\* the match of /(\w+):\s*([^\s]+)/ that starts at i
filterAt(q, i) ==
    filterValue(q, i, Run(q, i, IsWord),
                i + Run(q, i, IsWord) + 1
                  + Run(q, i + Run(q, i, IsWord) + 1, IsSpace))

\* the matches filterRegex.exec(query) returns from lastIndex p - 1 on
RECURSIVE filtersFrom(_, _)
filtersFrom(q, p) ==
    LET found == {i \in p..Len(q) : filterAt(q, i).ok}
    IN  IF found = {} THEN <<>>
        ELSE <<filterAt(q, Min(found))>> \o filtersFrom(q, filterAt(q, Min(found)).next)

\* processQuery(query): the keywords and the matches filters is assigned from
processQuery(q) ==
    [keywords |-> keywordsOf(split(q)), filters |-> filtersFrom(q, 1)]

\* names filters = {} inherits from Object.prototype
PrototypeKeys ==
    {<<"c","o","n","s","t","r","u","c","t","o","r">>,
     <<"t","o","S","t","r","i","n","g">>,
     <<"v","a","l","u","e","O","f">>,
     <<"h","a","s","O","w","n","P","r","o","p","e","r","t","y">>,
     <<"i","s","P","r","o","t","o","t","y","p","e","O","f">>,
     <<"t","o","L","o","c","a","l","e","S","t","r","i","n","g">>,
     <<"p","r","o","p","e","r","t","y","I","s","E","n","u","m","e","r","a","b","l","e">>,
     <<"_","_","p","r","o","t","o","_","_">>}

\* filters has an own property field
ownFilter(filters, field) ==
    /\ field # <<"_","_","p","r","o","t","o","_","_">>
    /\ \E i \in 1..Len(filters) : filters[i].key = field

\* filters[field] of an own property: the last assignment
filterOf(filters, field) ==
    filters[Max({i \in 1..Len(filters) : filters[i].key = field})].value

\* filters[field] is an inherited member: it is truthy and has no toLowerCase,
\* so filters[field].toLowerCase() throws a TypeError
filterThrows(filters, field) ==
    ~ownFilter(filters, field) /\ field \in PrototypeKeys

\* the filter of the field applies
filterHit(filters, field, fieldValue) ==
    /\ ownFilter(filters, field)
    /\ includes(fieldValue, toLowerCase(filterOf(filters, field)))

\* the keywords (with repetitions) the field value includes
keywordHits(keywords, fieldValue) ==
    Cardinality({j \in 1..Len(keywords) : includes(fieldValue, keywords[j])})

\* the number of times the field is appended to highlight
fieldHits(parsed, q, field, fieldValue) ==
    (IF filterHit(parsed.filters, field, fieldValue) THEN 1 ELSE 0)
    + keywordHits(parsed.keywords, fieldValue)
    + (IF fieldValue = toLowerCase(q) THEN 1 ELSE 0)

\* what one field adds to score
fieldScore(parsed, q, field, fieldValue) ==
    (IF filterHit(parsed.filters, field, fieldValue) THEN 10 ELSE 0)
    + 5 * keywordHits(parsed.keywords, fieldValue)
    + (IF fieldValue = toLowerCase(q) THEN 20 ELSE 0)

\* score after the entries of the row from i on
RECURSIVE scoreFrom(_, _, _, _)
scoreFrom(parsed, q, row, i) ==
    IF i > Len(row) THEN 0
    ELSE fieldScore(parsed, q, row[i].k, toLowerCase(String(row[i].v)))
         + scoreFrom(parsed, q, row, i + 1)

rowScore(parsed, q, row) == scoreFrom(parsed, q, row, 1)

\* matchedFields: the fields that scored, in the order of the row
matchedFieldsOf(parsed, q, row) ==
    LET hit == SortedSeq({i \in 1..Len(row) :
                   fieldHits(parsed, q, row[i].k, toLowerCase(String(row[i].v))) > 0})
    IN  [j \in 1..Len(hit) |-> row[hit[j]].k]

\* text appended n times
RECURSIVE repeat(_, _)
repeat(text, n) == IF n <= 0 THEN <<>> ELSE text \o repeat(text, n - 1)

\* highlight before the trim, after the entries of the row from i on
RECURSIVE highlightFrom(_, _, _, _)
highlightFrom(parsed, q, row, i) ==
    IF i > Len(row) THEN <<>>
    ELSE repeat(row[i].k \o <<":", " ">> \o String(row[i].v) \o <<" ">>,
                fieldHits(parsed, q, row[i].k, toLowerCase(String(row[i].v))))
         \o highlightFrom(parsed, q, row, i + 1)

\* the SearchResult pushed for the row at index
searchResult(parsed, q, row, index) ==
    [rowIndex      |-> index,
     row           |-> row,
     score         |-> rowScore(parsed, q, row),
     matchedFields |-> matchedFieldsOf(parsed, q, row),
     highlight     |-> trim(highlightFrom(parsed, q, row, 1))]

\* searchResults before the sort: the rows that scored, in table order
scoredRows(parsed, q, data) ==
    LET hit == SortedSeq({i \in 1..Len(data) : rowScore(parsed, q, data[i]) > 0})
    IN  [j \in 1..Len(hit) |-> searchResult(parsed, q, data[hit[j]], hit[j])]

\* the place of the i-th element after searchResults.sort((a, b) => b.score -
\* a.score); Array.prototype.sort is stable
sortedPlace(found, i) ==
    1 + Cardinality({j \in 1..Len(found) :
                        \/ found[j].score > found[i].score
                        \/ found[j].score = found[i].score /\ j < i})

sortByScore(found) ==
    [p \in 1..Len(found) |->
        found[CHOOSE i \in 1..Len(found) : sortedPlace(found, i) = p]]

\* the forEach over the rows throws
searchThrows(parsed, data) ==
    \E i \in 1..Len(data) : \E f \in 1..Len(data[i]) :
        filterThrows(parsed.filters, data[i][f].k)

SearchFailed == <<"S","e","a","r","c","h"," ","f","a","i","l","e","d","."," ","P","l","e","a","s","e"," ","t","r","y"," ","a","g","a","i","n",".">>

\* the panel shows its controls (line 162 returns the empty card otherwise)
searchShown == searchMounted /\ Len(getActiveData) > 0

\* the query box
setQuery(text) ==
    /\ searchShown
    /\ ~isSearching
    /\ query' = text
    /\ UNCHANGED <<hostVars, modifierVars, ruleVars, validationVars, now,
                   results, isSearching, searchError>>

\* searchData, from the Enter key or the Search button
searchData ==
    /\ searchShown
    /\ ~isSearching
    /\ IF trim(query) = <<>>
       THEN /\ results' = <<>>
            /\ UNCHANGED <<isSearching, searchError>>
       ELSE \E parsed \in {processQuery(query)} :
              /\ isSearching' = FALSE
              /\ IF searchThrows(parsed, getActiveData)
                 THEN /\ searchError' = SearchFailed
                      /\ UNCHANGED results
                 ELSE /\ searchError' = NoError
                      /\ results' = sortByScore(scoredRows(parsed, query, getActiveData))
    /\ UNCHANGED <<hostVars, modifierVars, ruleVars, validationVars, now, query>>

\* clearSearch, the Clear button
clearSearch ==
    /\ searchShown
    /\ Len(results) > 0
    /\ ~isSearching
    /\ query' = <<>>
    /\ results' = <<>>
    /\ searchError' = NoError
    /\ UNCHANGED <<hostVars, modifierVars, ruleVars, validationVars, now, isSearching>>

\* ------------------------------------------------------------------------
\* Specification
\* ------------------------------------------------------------------------

Init ==
    /\ clients = <<>>
    /\ workers = <<>>
    /\ tasks = <<>>
    /\ tabValue = DataGridTab
    /\ activeDataset = "clients"
    /\ command = <<>>
    /\ modifications = <<>>
    /\ isProcessing = FALSE
    /\ previewMode = FALSE
    /\ errorMessage = NoError
    /\ naturalLanguageInput = <<>>
    /\ rules = <<>>
    /\ newRule = InitialNewRule
    /\ query = <<>>
    /\ results = <<>>
    /\ isSearching = FALSE
    /\ searchError = NoError
    /\ validationErrors = <<>>
    /\ isValidating = FALSE
    /\ now = 0

Next ==
    \/ \E name \in DatasetNames : \E table \in Uploads(name) : Upload(name, table)
    \/ \E name \in DatasetNames : setActiveDataset(name)
    \/ \E newValue \in DataGridTab..AssistantTab : handleTabChange(newValue)
    \/ \E text \in TypedCommands : setCommand(text)
    \/ \E value \in BOOLEAN : setPreviewMode(value)
    \/ processCommand
    \/ \E i \in 1..Len(modifications) : applyModificationToData(i)
    \/ \E text \in RulePhrases : setNaturalLanguageInput(text)
    \/ processNaturalLanguage

Spec == Init /\ [][Next]_vars

\* One command on one table: a table has been uploaded as the clients, the
\* Data Modifier tab is open, the mode is chosen and a phrase is typed; the
\* phrase is processed and the record applied.
InitApply ==
    /\ clients \in Tables
    /\ workers = <<>>
    /\ tasks = <<>>
    /\ tabValue = ModifierTab
    /\ activeDataset = "clients"
    /\ command \in Commands
    /\ modifications = <<>>
    /\ isProcessing = FALSE
    /\ previewMode \in BOOLEAN
    /\ errorMessage = NoError
    /\ naturalLanguageInput = <<>>
    /\ rules = <<>>
    /\ newRule = InitialNewRule
    /\ query = <<>>
    /\ results = <<>>
    /\ isSearching = FALSE
    /\ searchError = NoError
    /\ validationErrors = <<>>
    /\ isValidating = FALSE
    /\ now = 0

NextApply ==
    \/ processCommand
    \/ \E i \in 1..Len(modifications) : applyModificationToData(i)

SpecApply == InitApply /\ [][NextApply]_vars

\* ------------------------------------------------------------------------
\* RuleBuilder: one phrase on one table
\* ------------------------------------------------------------------------

\* "name <phrase> 5", for the i-th phrase of operatorMap
OperatorPhrase(i) ==
    <<"n","a","m","e"," ">> \o operatorMap[i].phrase \o <<" ","5">>

\* name is short
NoOperatorPhrase ==
    <<"n","a","m","e"," ","i","s"," ","s","h","o","r","t">>

\* Name must be "John"
QuotedNamePhrase ==
    <<"N","a","m","e"," ","m","u","s","t"," ","b","e"," ","\"","J","o","h",
      "n","\"">>

\* name and email cannot contain "x"
TwoFieldsPhrase ==
    <<"n","a","m","e"," ","a","n","d"," ","e","m","a","i","l"," ","c","a",
      "n","n","o","t"," ","c","o","n","t","a","i","n"," ","\"","x","\"">>

\* the phrases a rule is created from
BuilderPhrases ==
    {OperatorPhrase(i) : i \in 1..Len(operatorMap)}
    \cup {NoOperatorPhrase, QuotedNamePhrase, TwoFieldsPhrase,
          EmailRulePhrase, PhoneRulePhrase}

\* One phrase on one table: a table has been uploaded as the clients, the
\* Rules tab is open and a phrase is typed; the phrase is processed and the
\* rules it yields are toggled and deleted.
InitPhrases ==
    /\ clients \in Tables
    /\ workers = <<>>
    /\ tasks = <<>>
    /\ tabValue = RulesTab
    /\ activeDataset = "clients"
    /\ command = <<>>
    /\ modifications = <<>>
    /\ isProcessing = FALSE
    /\ previewMode = FALSE
    /\ errorMessage = NoError
    /\ naturalLanguageInput \in BuilderPhrases
    /\ rules = <<>>
    /\ newRule = InitialNewRule
    /\ query = <<>>
    /\ results = <<>>
    /\ isSearching = FALSE
    /\ searchError = NoError
    /\ validationErrors = <<>>
    /\ isValidating = FALSE
    /\ now = 0

RuleIds == {rules[i].id : i \in 1..Len(rules)}

NextPhrases ==
    \/ processNaturalLanguage
    \/ \E id \in RuleIds : toggleRule(id)
    \/ \E id \in RuleIds : deleteRule(id)

SpecPhrases == InitPhrases /\ [][NextPhrases]_vars

\* ------------------------------------------------------------------------
\* ValidationPanel and NaturalLanguageSearch on one table
\* ------------------------------------------------------------------------

\* [{name:"Al", phone:"+15551234", joindate:"2024-01-15", age:"41"},
\*  {name:"", phone:"", joindate:"", age:""},
\*  {name:"Bo", phone:"0123", joindate:"5 may", age:"x"}]
Contacts ==
    << << [k |-> <<"n","a","m","e">>, v |-> StrVal(<<"A","l">>)],
          [k |-> <<"p","h","o","n","e">>, v |-> StrVal(<<"+","1","5","5","5","1","2","3","4">>)],
          [k |-> <<"j","o","i","n","d","a","t","e">>, v |-> StrVal(<<"2","0","2","4","-","0","1","-","1","5">>)],
          [k |-> <<"a","g","e">>, v |-> StrVal(<<"4","1">>)] >>,

       << [k |-> <<"n","a","m","e">>, v |-> StrVal(<<>>)],
          [k |-> <<"p","h","o","n","e">>, v |-> StrVal(<<>>)],
          [k |-> <<"j","o","i","n","d","a","t","e">>, v |-> StrVal(<<>>)],
          [k |-> <<"a","g","e">>, v |-> StrVal(<<>>)] >>,

       << [k |-> <<"n","a","m","e">>, v |-> StrVal(<<"B","o">>)],
          [k |-> <<"p","h","o","n","e">>, v |-> StrVal(<<"0","1","2","3">>)],
          [k |-> <<"j","o","i","n","d","a","t","e">>, v |-> StrVal(<<"5"," ","m","a","y">>)],
          [k |-> <<"a","g","e">>, v |-> StrVal(<<"x">>)] >> >>

\* [{constructor:"Acme", city:"Rome"}]
Builders ==
    << << [k |-> <<"c","o","n","s","t","r","u","c","t","o","r">>, v |-> StrVal(<<"A","c","m","e">>)],
          [k |-> <<"c","i","t","y">>, v |-> StrVal(<<"R","o","m","e">>)] >> >>

\* the tables that are validated and searched
InspectTables == Tables \cup {Contacts, Builders}

\* john
LowerQuery == <<"j","o","h","n">>

\* John
UpperQuery == <<"J","o","h","n">>

\* jane
ExactQuery == <<"j","a","n","e">>

\* name:john
FilterQuery == <<"n","a","m","e",":","j","o","h","n">>

\* name: jane
SpacedFilterQuery == <<"n","a","m","e",":"," ","j","a","n","e">>

\* jane com
TwoWordQuery == <<"j","a","n","e"," ","c","o","m">>

\* rome
CityQuery == <<"r","o","m","e">>

\* zzz
MissQuery == <<"z","z","z">>

\* a blank
BlankQuery == <<" ">>

\* the queries typed into the query box
Queries ==
    {LowerQuery, UpperQuery, ExactQuery, FilterQuery, SpacedFilterQuery,
     TwoWordQuery, CityQuery, MissQuery, BlankQuery}

\* One table under inspection: a table has been uploaded as the clients and
\* the Validation or the Search tab is open; the table is validated, queries
\* are typed, run and cleared, and the user moves between the two tabs.
InitInspect ==
    /\ clients \in InspectTables
    /\ workers = <<>>
    /\ tasks = <<>>
    /\ tabValue \in {ValidationTab, SearchTab}
    /\ activeDataset = "clients"
    /\ command = <<>>
    /\ modifications = <<>>
    /\ isProcessing = FALSE
    /\ previewMode = FALSE
    /\ errorMessage = NoError
    /\ naturalLanguageInput = <<>>
    /\ rules = <<>>
    /\ newRule = InitialNewRule
    /\ query = <<>>
    /\ results = <<>>
    /\ isSearching = FALSE
    /\ searchError = NoError
    /\ validationErrors = <<>>
    /\ isValidating = FALSE
    /\ now = 0

NextInspect ==
    \/ \E newValue \in {ValidationTab, SearchTab} : handleTabChange(newValue)
    \/ validateData
    \/ \E text \in Queries : setQuery(text)
    \/ searchData
    \/ clearSearch

SpecInspect == InitInspect /\ [][NextInspect]_vars

\* Several datasets under validation: tables have been uploaded, the
\* Validation tab is open; the active table is validated and the user moves
\* between the datasets and between the Data Grid and the Validation tab.
InitSwitch ==
    /\ clients \in InspectTables
    /\ workers \in {<<>>, OneWorker}
    /\ tasks \in {<<>>, TwoTasks}
    /\ tabValue = ValidationTab
    /\ activeDataset = "clients"
    /\ command = <<>>
    /\ modifications = <<>>
    /\ isProcessing = FALSE
    /\ previewMode = FALSE
    /\ errorMessage = NoError
    /\ naturalLanguageInput = <<>>
    /\ rules = <<>>
    /\ newRule = InitialNewRule
    /\ query = <<>>
    /\ results = <<>>
    /\ isSearching = FALSE
    /\ searchError = NoError
    /\ validationErrors = <<>>
    /\ isValidating = FALSE
    /\ now = 0

NextSwitch ==
    \/ \E name \in DatasetNames : setActiveDataset(name)
    \/ \E newValue \in {DataGridTab, ValidationTab} : handleTabChange(newValue)
    \/ validateData

SpecSwitch == InitSwitch /\ [][NextSwitch]_vars

\* delete name row 1
DeleteFirstPhrase == <<"d","e","l","e","t","e"," ","n","a","m","e"," ","r","o","w"," ","1">>

\* set name to "x" row 3
UpdateThirdPhrase == <<"s","e","t"," ","n","a","m","e"," ","t","o"," ","\"","x","\""," ","r","o","w"," ","3">>

\* set name to "y" where name = jane
UpdateWherePhrase == <<"s","e","t"," ","n","a","m","e"," ","t","o"," ","\"","y","\""," ","w","h","e","r","e"," ","n","a","m","e"," ","="," ","j","a","n","e">>

\* the phrases that are previewed
PreviewPhrases ==
    {DeleteFirstPhrase, UpdateThirdPhrase, UpdateWherePhrase, DeleteWherePhrase}

\* no record has been applied yet
allPending == \A i \in 1..Len(modifications) : modifications[i].status = "pending"

\* Preview first, apply afterwards: the three clients have been uploaded, the
\* Data Modifier tab is open in preview mode; the user types and processes
\* the commands and then applies the records in any order.
InitPreview ==
    /\ clients = ThreeClients
    /\ workers = <<>>
    /\ tasks = <<>>
    /\ tabValue = ModifierTab
    /\ activeDataset = "clients"
    /\ command \in PreviewPhrases
    /\ modifications = <<>>
    /\ isProcessing = FALSE
    /\ previewMode = TRUE
    /\ errorMessage = NoError
    /\ naturalLanguageInput = <<>>
    /\ rules = <<>>
    /\ newRule = InitialNewRule
    /\ query = <<>>
    /\ results = <<>>
    /\ isSearching = FALSE
    /\ searchError = NoError
    /\ validationErrors = <<>>
    /\ isValidating = FALSE
    /\ now = 0

NextPreview ==
    \/ \E text \in PreviewPhrases : allPending /\ setCommand(text)
    \/ allPending /\ processCommand
    \/ \E i \in 1..Len(modifications) : applyModificationToData(i)

SpecPreview == InitPreview /\ [][NextPreview]_vars

\* ------------------------------------------------------------------------
\* transformValue on one string
\* ------------------------------------------------------------------------

\* the longest string a transform is applied to
MaxLen == 3

\* the strings over a lower-case letter, an upper-case letter and the space
RECURSIVE StringsUpTo(_)
StringsUpTo(n) ==
    IF n = 0 THEN {<<>>}
    ELSE StringsUpTo(n - 1)
         \cup {Append(s, c) : s \in StringsUpTo(n - 1), c \in {"a", "B", " "}}

\* [{name: s}]
OneCell(s) == << << [k |-> <<"n","a","m","e">>, v |-> StrVal(s)] >> >>

\* Transform name field to uppercase row 1
UppercasePhrase == <<"T","r","a","n","s","f","o","r","m"," ","n","a","m","e"," ","f","i","e","l","d"," ","t","o"," ","u","p","p","e","r","c","a","s","e"," ","r","o","w"," ","1">>

\* Transform name field to lowercase row 1
LowercasePhrase == <<"T","r","a","n","s","f","o","r","m"," ","n","a","m","e"," ","f","i","e","l","d"," ","t","o"," ","l","o","w","e","r","c","a","s","e"," ","r","o","w"," ","1">>

\* Transform name field to trim row 1
TrimPhrase == <<"T","r","a","n","s","f","o","r","m"," ","n","a","m","e"," ","f","i","e","l","d"," ","t","o"," ","t","r","i","m"," ","r","o","w"," ","1">>

TransformCommands == {UppercasePhrase, LowercasePhrase, TrimPhrase}

\* One string under the transforms: a one-cell table has been uploaded as the
\* clients, the Data Modifier tab is open and a transform command is typed;
\* commands are typed, processed and applied.
InitTransform ==
    /\ clients \in {OneCell(s) : s \in StringsUpTo(MaxLen)}
    /\ workers = <<>>
    /\ tasks = <<>>
    /\ tabValue = ModifierTab
    /\ activeDataset = "clients"
    /\ command \in TransformCommands
    /\ modifications = <<>>
    /\ isProcessing = FALSE
    /\ previewMode = FALSE
    /\ errorMessage = NoError
    /\ naturalLanguageInput = <<>>
    /\ rules = <<>>
    /\ newRule = InitialNewRule
    /\ query = <<>>
    /\ results = <<>>
    /\ isSearching = FALSE
    /\ searchError = NoError
    /\ validationErrors = <<>>
    /\ isValidating = FALSE
    /\ now = 0

NextTransform ==
    \/ \E text \in TransformCommands : setCommand(text)
    \/ processCommand
    \/ \E i \in 1..Len(modifications) : applyModificationToData(i)

SpecTransform == InitTransform /\ [][NextTransform]_vars

\* ------------------------------------------------------------------------
\* RuleBuilder: the rule list over time
\* ------------------------------------------------------------------------

\* the phrases typed into the rule phrase box
ListPhrases == {EmailRulePhrase, TwoFieldsPhrase}

\* The rule list: a table has been uploaded as the clients and the Rules tab
\* is open; rules are created from phrases and from the manual form, toggled
\* and deleted, and the user leaves the Rules tab and comes back.
InitRules ==
    /\ clients \in {TwoClients, OneWorker}
    /\ workers = <<>>
    /\ tasks = <<>>
    /\ tabValue = RulesTab
    /\ activeDataset = "clients"
    /\ command = <<>>
    /\ modifications = <<>>
    /\ isProcessing = FALSE
    /\ previewMode = FALSE
    /\ errorMessage = NoError
    /\ naturalLanguageInput = <<>>
    /\ rules = <<>>
    /\ newRule = InitialNewRule
    /\ query = <<>>
    /\ results = <<>>
    /\ isSearching = FALSE
    /\ searchError = NoError
    /\ validationErrors = <<>>
    /\ isValidating = FALSE
    /\ now = 0

NextRules ==
    \/ \E newValue \in {DataGridTab, RulesTab} : handleTabChange(newValue)
    \/ \E text \in ListPhrases : setNaturalLanguageInput(text)
    \/ processNaturalLanguage
    \/ \E value \in FormNames : setNewRule("name", value)
    \/ \E value \in Range(availableFields(getActiveData)) : setNewRule("field", value)
    \/ \E value \in FormOperators : setNewRule("operator", value)
    \/ addRule
    \/ \E id \in RuleIds : toggleRule(id)
    \/ \E id \in RuleIds : deleteRule(id)

SpecRules == InitRules /\ [][NextRules]_vars

\* ------------------------------------------------------------------------
\* parseCommand and evaluateCondition: one command on one table
\* ------------------------------------------------------------------------

\* [{First_Name:"Ann Lee", name:"ann", city:"New York"}]
Staff ==
    << << [k |-> <<"F","i","r","s","t","_","N","a","m","e">>, v |-> StrVal(<<"A","n","n"," ","L","e","e">>)],
          [k |-> <<"n","a","m","e">>, v |-> StrVal(<<"a","n","n">>)],
          [k |-> <<"c","i","t","y">>, v |-> StrVal(<<"N","e","w"," ","Y","o","r","k">>)] >> >>

\* set first name to "x" row 1
FirstNamePhrase == <<"s","e","t"," ","f","i","r","s","t"," ","n","a","m","e"," ","t","o"," ","\"","x","\""," ","r","o","w"," ","1">>

\* convert name to title row 1
ConvertPhrase == <<"c","o","n","v","e","r","t"," ","n","a","m","e"," ","t","o"," ","t","i","t","l","e"," ","r","o","w"," ","1">>

\* transform name to title row 1
TransformWordPhrase == <<"t","r","a","n","s","f","o","r","m"," ","n","a","m","e"," ","t","o"," ","t","i","t","l","e"," ","r","o","w"," ","1">>

\* delete hours where hours = 0
ZeroHoursPhrase == <<"d","e","l","e","t","e"," ","h","o","u","r","s"," ","w","h","e","r","e"," ","h","o","u","r","s"," ","="," ","0">>

\* delete done where done = false
NotDonePhrase == <<"d","e","l","e","t","e"," ","d","o","n","e"," ","w","h","e","r","e"," ","d","o","n","e"," ","="," ","f","a","l","s","e">>

\* delete name where name starts with jo
StartsWithPhrase == <<"d","e","l","e","t","e"," ","n","a","m","e"," ","w","h","e","r","e"," ","n","a","m","e"," ","s","t","a","r","t","s"," ","w","i","t","h"," ","j","o">>

\* delete name where name ends with doe
EndsWithPhrase == <<"d","e","l","e","t","e"," ","n","a","m","e"," ","w","h","e","r","e"," ","n","a","m","e"," ","e","n","d","s"," ","w","i","t","h"," ","d","o","e">>

\* delete city where city = new york
TwoWordValuePhrase == <<"d","e","l","e","t","e"," ","c","i","t","y"," ","w","h","e","r","e"," ","c","i","t","y"," ","="," ","n","e","w"," ","y","o","r","k">>

\* the tables a command is parsed on
ParseTables == Tables \cup {Staff}

\* the commands that are parsed
ParsePhrases ==
    Commands \cup {FirstNamePhrase, ConvertPhrase, TransformWordPhrase,
                   ZeroHoursPhrase, NotDonePhrase,
                   StartsWithPhrase, EndsWithPhrase, TwoWordValuePhrase}

\* One command parsed on one table: a table has been uploaded as the clients,
\* the Data Modifier tab is open, the mode is chosen and a command is typed;
\* the command is processed and the record applied.
InitParse ==
    /\ clients \in ParseTables
    /\ workers = <<>>
    /\ tasks = <<>>
    /\ tabValue = ModifierTab
    /\ activeDataset = "clients"
    /\ command \in ParsePhrases
    /\ modifications = <<>>
    /\ isProcessing = FALSE
    /\ previewMode \in BOOLEAN
    /\ errorMessage = NoError
    /\ naturalLanguageInput = <<>>
    /\ rules = <<>>
    /\ newRule = InitialNewRule
    /\ query = <<>>
    /\ results = <<>>
    /\ isSearching = FALSE
    /\ searchError = NoError
    /\ validationErrors = <<>>
    /\ isValidating = FALSE
    /\ now = 0

NextParse ==
    \/ processCommand
    \/ \E i \in 1..Len(modifications) : applyModificationToData(i)

SpecParse == InitParse /\ [][NextParse]_vars

\* ------------------------------------------------------------------------
\* Properties
\* ------------------------------------------------------------------------

NameField  == <<"n","a","m","e">>
EmailField == <<"e","m","a","i","l">>

\* the positions a record selects in a table: listed in affectedRows, or
\* satisfying the condition when there is one
SelectedRows(data, m) ==
    {i \in 1..Len(data) :
        \/ \E j \in 1..Len(m.affectedRows) : m.affectedRows[j] = i
        \/ (m.condition # <<>> /\ evaluateCondition(data[i], m.condition))}

\* the rows of data at the positions outside S, in order
Without(data, S) ==
    LET keep == SortedSeq((1..Len(data)) \ S)
    IN  [j \in 1..Len(keep) |-> data[keep[j]]]

\* the fields of a row other than f are the same in the two rows
SameExcept(old, new, f) ==
    /\ \A j \in 1..Len(old) : old[j].k # f => Get(new, old[j].k) = old[j].v
    /\ \A j \in 1..Len(new) : new[j].k # f => HasKey(old, new[j].k)

\* C1: processing 'Update email field to uppercase where name contains John'
\* on [{name:"John Doe", email:"j@x.com"}, {name:"Jane", email:"a@x.com"}] and
\* applying the record sets the email of row 1 to "J@X.COM" and changes
\* nothing else.
C1_UppercaseEmailWhereNameContainsJohn ==
    [][\A i \in 1..Len(modifications) :
          (/\ clients = TwoClients
           /\ modifications[i].command = UpdateEmailPhrase
           /\ applyModificationToData(i))
          => clients' = <<Put(TwoClients[1], EmailField, StrVal(<<"J","@","X",".","C","O","M">>)),
                          TwoClients[2]>>]_vars

\* C2: processing 'Transform name field to wordcount' on
\* [{name:"John Middle Doe"}] and applying the record sets the name of row 1
\* to the number 3.
C2_WordcountOfName ==
    [][\A i \in 1..Len(modifications) :
          (/\ clients = OneWorker
           /\ modifications[i].command = WordcountPhrase
           /\ applyModificationToData(i))
          => clients' = <<Put(OneWorker[1], NameField, NumVal(3))>>]_vars

\* C3: on every table of 3 rows, processing 'Delete row 2' yields a record,
\* and applying it leaves the original rows 1 and 3, in that order.
C3_DeleteRowTwo ==
    [][/\ (/\ Len(getActiveData) = 3
           /\ command = DeleteRowPhrase
           /\ processCommand)
          => /\ Len(modifications') = Len(modifications) + 1
             /\ modifications'[1].command = DeleteRowPhrase
       /\ \A i \in 1..Len(modifications) :
             (/\ Len(getActiveData) = 3
              /\ modifications[i].command = DeleteRowPhrase
              /\ applyModificationToData(i))
             => getActiveData' = <<getActiveData[1], getActiveData[3]>>]_vars

\* C4: when applyModification raises an exception while it transforms the
\* rows, the apply action ends with the record's status failed and with the
\* table it hands to the host equal to the table before.
C4_ExceptionMarksRecordFailed ==
    [][\A i \in 1..Len(modifications) :
          (/\ applyThrows(getActiveData, modifications[i])
           /\ applyModificationToData(i))
          => /\ getActiveData' = getActiveData
             /\ Len(modifications') = Len(modifications)
             /\ modifications'[i].status = "failed"]_vars

\* the ids of the records of the history, and the status of the record id
Ids(mods) == {mods[i].id : i \in 1..Len(mods)}
StatusOf(mods, id) == mods[CHOOSE i \in 1..Len(mods) : mods[i].id = id].status

\* C5: a record enters the history only through processCommand, with status
\* pending, in both modes, and processCommand leaves the three datasets
\* unchanged; the status of a record changes only in the apply action of that
\* record, from pending to applied or failed, and a status other than pending
\* never changes.
C5_StatusChangesOnceOnApply ==
    [][/\ UNCHANGED <<clients, workers, tasks>> \/ ~processCommand
       /\ \A id \in Ids(modifications') \ Ids(modifications) :
             /\ processCommand
             /\ StatusOf(modifications', id) = "pending"
       /\ \A id \in Ids(modifications') \cap Ids(modifications) :
             StatusOf(modifications', id) # StatusOf(modifications, id)
             => /\ StatusOf(modifications, id) = "pending"
                /\ StatusOf(modifications', id) \in {"applied", "failed"}
                /\ \E i \in 1..Len(modifications) :
                      modifications[i].id = id /\ applyModificationToData(i)]_vars

\* a record made in 'Direct Apply' mode is still pending next to one that
\* was applied
C5_Witness ==
    /\ ~previewMode
    /\ Len(modifications) = 2
    /\ modifications[1].status = "pending"
    /\ modifications[2].status = "applied"

\* C6: a submitted phrase that contains no known field name gives the user a
\* diagnostic listing the available field names and changes nothing else:
\* no record, no rule, the text of the input box, the history, the rule list
\* and the datasets stay as they were.
C6_NoFieldGivesDiagnosticAndNoChange ==
    [][/\ (/\ processCommand
           /\ matchField(availableFields(getActiveData), toLowerCase(command)) = <<>>)
          => /\ errorMessage' = fieldNotFoundMessage(availableFields(getActiveData))
             /\ UNCHANGED <<command, modifications, previewMode, hostVars, ruleVars>>
       /\ (/\ processNaturalLanguage
           /\ fieldMatches(availableFields(getActiveData),
                           toLowerCase(naturalLanguageInput)) = <<>>)
          => UNCHANGED <<naturalLanguageInput, rules, hostVars, modifierVars>>]_vars

C8_DeleteRemovesSelectedRows ==
    [][\A i \in 1..Len(modifications) :
          (/\ modifications[i].operation = "delete"
           /\ applyModificationToData(i))
          => LET old == getActiveData
                 new == getActiveData'
                 sel == SelectedRows(old, modifications[i])
             IN  /\ Len(new) <= Len(old)
                 /\ Len(new) = Len(old) => sel = {}
                 /\ new = Without(old, sel)]_vars

\* 'delete name row 3 where name = jane' has removed rows 2 and 3 of the
\* three clients
C8_Witness ==
    /\ Len(modifications) = 1
    /\ modifications[1].command = DeleteWherePhrase
    /\ modifications[1].status = "applied"
    /\ modifications[1].affectedRows = <<3>>
    /\ clients = <<ThreeClients[1]>>

\* C9: applying an add record to n rows returns n + 1 rows: the n rows
\* unchanged, then a row with exactly the fields of the first row, each the
\* empty string except the record's field, which holds the record's literal,
\* whatever affectedRows and condition the record carries.
C9_AddAppendsOneRow ==
    [][\A i \in 1..Len(modifications) :
          (/\ modifications[i].operation = "add"
           /\ applyModificationToData(i))
          => LET m   == modifications[i]
                 old == getActiveData
                 new == getActiveData'
             IN  /\ Len(new) = Len(old) + 1
                 /\ SubSeq(new, 1, Len(old)) = old
                 /\ Keys(new[Len(new)]) = Keys(old[1])
                 /\ \A j \in 1..Len(new[Len(new)]) :
                       new[Len(new)][j].v =
                          StrVal(IF new[Len(new)][j].k = m.field
                                 THEN m.newValue ELSE <<>>)]_vars

\* an add record that carries a row number and a condition has been applied
\* to the three clients
C9_Witness ==
    /\ Len(modifications) = 1
    /\ modifications[1].operation = "add"
    /\ modifications[1].affectedRows # <<>>
    /\ modifications[1].condition # <<>>
    /\ modifications[1].status = "applied"
    /\ Len(clients) = 4
    /\ SubSeq(clients, 1, 3) = ThreeClients

\* C10: applying a replace record without a condition leaves the table as it
\* was, also when the record names target rows.
C10_ReplaceWithoutConditionIsNoOp ==
    [][\A i \in 1..Len(modifications) :
          (/\ modifications[i].operation = "replace"
           /\ modifications[i].condition = <<>>
           /\ applyModificationToData(i))
          => getActiveData' = getActiveData]_vars

\* the rules a step of the rule builder has appended
AddedRules == SubSeq(rules', Len(rules) + 1, Len(rules'))

\* C11: for every phrase of the phrase table, processing "name <phrase> 5" on
\* a table that has the field name yields rules, all with the operator the
\* table assigns to that phrase; a phrase with none of them yields equals.
C11_PhraseTableGivesOperator ==
    [][(/\ processNaturalLanguage
        /\ HasKey(getActiveData[1], NameField))
       => /\ \A i \in 1..Len(operatorMap) :
                naturalLanguageInput = OperatorPhrase(i)
                => /\ Len(AddedRules) >= 1
                   /\ \A j \in 1..Len(AddedRules) :
                         AddedRules[j].operator = operatorMap[i].operator
          /\ naturalLanguageInput = NoOperatorPhrase
                => /\ Len(AddedRules) >= 1
                   /\ \A j \in 1..Len(AddedRules) :
                         AddedRules[j].operator = "equals"]_vars

\* the positions of the fields whose lower-cased name occurs in the
\* lower-cased phrase
NamedFields(fields, text) ==
    {i \in 1..Len(fields) : includes(toLowerCase(text), toLowerCase(fields[i]))}

\* C12: processNaturalLanguage keeps the existing rules and appends one rule
\* per field whose lower-cased name occurs in the lower-cased phrase, in
\* field order; each has the phrase as description, the first double-quoted
\* payload of the phrase (or '') as value and the same operator; the phrase
\* 'Email field must contain "@"' yields field email, operator contains and
\* value "@".
C12_OneRulePerNamedField ==
    [][processNaturalLanguage
       => LET fields == availableFields(getActiveData)
              named  == SortedSeq(NamedFields(fields, naturalLanguageInput))
          IN  /\ SubSeq(rules', 1, Len(rules)) = rules
              /\ Len(AddedRules) = Len(named)
              /\ \A j \in 1..Len(AddedRules) :
                    /\ AddedRules[j].field = fields[named[j]]
                    /\ AddedRules[j].description = naturalLanguageInput
                    /\ AddedRules[j].value = extractValue(naturalLanguageInput)
                    /\ AddedRules[j].operator = AddedRules[1].operator
              /\ (naturalLanguageInput = EmailRulePhrase /\ Len(AddedRules) >= 1)
                    => /\ Len(AddedRules) = 1
                       /\ AddedRules[1].field = EmailField
                       /\ AddedRules[1].operator = "contains"
                       /\ AddedRules[1].value = <<"@">>]_vars

\* C13: validation never reports an issue for a field whose value in the row
\* is absent or is the empty string, whatever rule was inferred for the
\* field: every reported issue carries a present, non-empty value.
C13_NoIssueForAbsentOrEmpty ==
    \A i \in 1..Len(validationErrors) :
        /\ validationErrors[i].value.kind # "undefined"
        /\ validationErrors[i].value # StrVal(<<>>)

\* the query with the characters of its field:value filters blanked
withoutFilters(q, filters) ==
    [i \in 1..Len(q) |->
        IF \E j \in 1..Len(filters) : filters[j].at <= i /\ i < filters[j].next
        THEN " " ELSE q[i]]

\* the keywords of the claim: the tokens longer than two characters that
\* remain when the filters are taken out
remainingKeywords(q) == keywordsOf(split(withoutFilters(q, filtersFrom(q, 1))))

\* the score the claim gives a field: 10 for its filter, 5 for each keyword
\* found case-insensitively, 20 for the whole query
statedFieldScore(q, filters, keywords, field, fieldValue) ==
    (IF filterHit(filters, field, fieldValue) THEN 10 ELSE 0)
    + 5 * Cardinality({j \in 1..Len(keywords) :
                          includes(fieldValue, toLowerCase(keywords[j]))})
    + (IF fieldValue = toLowerCase(q) THEN 20 ELSE 0)

RECURSIVE statedScoreFrom(_, _, _, _, _)
statedScoreFrom(q, filters, keywords, row, i) ==
    IF i > Len(row) THEN 0
    ELSE statedFieldScore(q, filters, keywords, row[i].k,
                          toLowerCase(String(row[i].v)))
         + statedScoreFrom(q, filters, keywords, row, i + 1)

statedScore(q, row) ==
    statedScoreFrom(q, filtersFrom(q, 1), remainingKeywords(q), row, 1)

\* the score a result list shows for the row with number n: 0 for a row that
\* is not listed
shownScore(found, n) ==
    IF \E j \in 1..Len(found) : found[j].rowIndex = n
    THEN found[CHOOSE j \in 1..Len(found) : found[j].rowIndex = n].score
    ELSE 0

\* a search that has scored the rows: the query is not blank and no error is
\* set
scoringSearch ==
    /\ searchData
    /\ trim(query) # <<>>
    /\ searchError' = NoError

\* C14: the score a search gives a row is the sum over its fields of 10 for a
\* matching field:value filter, 5 for each keyword the field value contains
\* compared case-insensitively and 20 for a field value equal to the whole
\* query case-insensitively, the keywords being the tokens longer than two
\* characters that remain after the filters are taken out.
C14_ScoreOfRow ==
    [][scoringSearch
          => \A n \in 1..Len(getActiveData) :
                shownScore(results', n) = statedScore(query, getActiveData[n])]_vars

\* the rows of the table the search scores above 0
scoringRows(parsed, q, data) ==
    {n \in 1..Len(data) : rowScore(parsed, q, data[n]) > 0}

\* the list holds exactly the scoring rows, each once with its 1-based row
\* number, its row and its score, by non-increasing score and, among equal
\* scores, by increasing row number
rankedResults(found, parsed, q, data) ==
    /\ {found[j].rowIndex : j \in 1..Len(found)} = scoringRows(parsed, q, data)
    /\ Len(found) = Cardinality(scoringRows(parsed, q, data))
    /\ \A j \in 1..Len(found) :
          /\ found[j].row = data[found[j].rowIndex]
          /\ found[j].score = rowScore(parsed, q, data[found[j].rowIndex])
    /\ \A j \in 1..Len(found) : \A k \in (j + 1)..Len(found) :
          /\ found[j].score >= found[k].score
          /\ found[j].score = found[k].score
                => found[j].rowIndex < found[k].rowIndex

\* C15: the result list of every search of a non-blank query contains
\* exactly the rows whose score is greater than 0, each with its 1-based row
\* number, ordered by non-increasing score, results of equal score in
\* increasing row-number order.
C15_ResultsAreScoringRowsInOrder ==
    [][(searchData /\ trim(query) # <<>>)
          => rankedResults(results', processQuery(query), query, getActiveData)]_vars

\* the same for the searches that end without an error
C15_CompletedSearchesAreRanked ==
    [][scoringSearch
          => rankedResults(results', processQuery(query), query, getActiveData)]_vars

\* C16: for every table and every query searchData ends without setting the
\* error state (a blank query leaves it as it was), a query that scores no row
\* produces an empty result list, and the datasets are not changed.
C16_SearchNeverFails ==
    [][searchData
          => /\ IF trim(query) = <<>>
                THEN searchError' = searchError
                ELSE searchError' = NoError
             /\ scoringRows(processQuery(query), query, getActiveData) = {}
                   => results' = <<>>
             /\ UNCHANGED <<clients, workers, tasks>>]_vars

\* the transforms that are idempotent
IdempotentTransforms ==
    {<<"u","p","p","e","r","c","a","s","e">>,
     <<"l","o","w","e","r","c","a","s","e">>,
     <<"t","r","i","m">>}

\* transformValue(transformValue(v, t), t) equals transformValue(v, t)
TwiceIsOnce(v, t) ==
    transformValue(transformValue(v, t), t) = transformValue(v, t)

\* C17: for every string value v and every transform name t of uppercase,
\* lowercase and trim, transformValue(transformValue(v, t), t) equals
\* transformValue(v, t); checked on the value of every row a transform
\* record of these names selects, the row receiving transformValue(v, t).
C17_TransformTwiceIsOnce ==
    [][\A i \in 1..Len(modifications) :
          (/\ applyModificationToData(i)
           /\ modifications[i].operation = "transform"
           /\ toLowerCase(modifications[i].newValue) \in IdempotentTransforms)
          => \A r \in 1..Len(getActiveData) :
                (/\ rowSelected(getActiveData, modifications[i], r)
                 /\ Get(getActiveData[r], modifications[i].field).kind = "string")
                => /\ Get(getActiveData'[r], modifications[i].field)
                        = transformValue(Get(getActiveData[r], modifications[i].field),
                                         modifications[i].newValue)
                   /\ TwiceIsOnce(Get(getActiveData[r], modifications[i].field),
                                  modifications[i].newValue)]_vars

\* uppercase has been applied twice to a string with a lower-case letter
C17_Witness ==
    /\ Len(modifications) = 2
    /\ \A i \in 1..2 :
          /\ modifications[i].status = "applied"
          /\ modifications[i].newValue = <<"u","p","p","e","r","c","a","s","e">>
    /\ "A" \in Range(clients[1][1].v.text)

\* the rule of the list with the id
ruleWithId(rls, id) == rls[CHOOSE j \in 1..Len(rls) : rls[j].id = id]

\* the ids of the rules of the list
idsOf(rls) == {rls[j].id : j \in 1..Len(rls)}

\* the step is an operation of the rule builder
ruleBuilderStep ==
    \/ processNaturalLanguage
    \/ addRule
    \/ \E id \in RuleIds : toggleRule(id)
    \/ \E id \in RuleIds : deleteRule(id)

\* C18: no rule-builder operation (processNaturalLanguage, addRule,
\* toggleRule, deleteRule) changes the table; a rule's fields other than
\* isActive never change after its creation; toggleRule(id) flips isActive of
\* the rules with that id and leaves every other rule unchanged; and a rule
\* leaves the list only through deleteRule with its id.
C18_RulesChangeByToggleAndDeleteOnly ==
    [][/\ ruleBuilderStep => UNCHANGED <<clients, workers, tasks>>
       /\ \A id \in idsOf(rules) :
             /\ id \notin idsOf(rules') => deleteRule(id)
             /\ id \in idsOf(rules')
                   => /\ [ruleWithId(rules', id) EXCEPT !.isActive = TRUE]
                         = [ruleWithId(rules, id) EXCEPT !.isActive = TRUE]
                      /\ ruleWithId(rules', id).isActive # ruleWithId(rules, id).isActive
                            => toggleRule(id)
             /\ toggleRule(id)
                   => /\ Len(rules') = Len(rules)
                      /\ \A j \in 1..Len(rules) :
                            rules'[j] = IF rules[j].id = id
                                        THEN [rules[j] EXCEPT !.isActive = ~rules[j].isActive]
                                        ELSE rules[j]]_vars

\* the same for the steps of the rule builder alone
C18_WithinTheRuleBuilder ==
    [][ruleBuilderStep =>
       /\ UNCHANGED <<clients, workers, tasks>>
       /\ \A id \in idsOf(rules) :
             /\ id \notin idsOf(rules') => deleteRule(id)
             /\ id \in idsOf(rules')
                   => /\ [ruleWithId(rules', id) EXCEPT !.isActive = TRUE]
                         = [ruleWithId(rules, id) EXCEPT !.isActive = TRUE]
                      /\ ruleWithId(rules', id).isActive # ruleWithId(rules, id).isActive
                            => toggleRule(id)]_vars

\* the rows an array of references holds
rowsOf(heap, array) == [p \in 1..Len(array) |-> heap.objects[array[p]]]

\* the call has left its input as it was and returned the table in a new
\* array whose changed rows are new objects
inputKept(heap, data, table) ==
    /\ heap.input = references(Len(data))
    /\ rowsOf(heap, heap.input) = data
    /\ heap.returned # "data"
    /\ rowsOf(heap, heap.output) = table
    /\ \A p \in 1..Len(heap.output) :
          heap.output[p] <= Len(data) => table[p] = data[heap.output[p]]

\* C19: applyModification never mutates its input: after any apply the array
\* and every row object that were the table before the call have the same
\* length, order and field values, and the table handed to the host is a new
\* array in which every changed row is a new object.
C19_ApplyKeepsItsInput ==
    [][\A i \in 1..Len(modifications) :
          applyModificationToData(i)
          => inputKept(applyOnHeap(getActiveData, modifications[i]),
                       getActiveData, getActiveData')]_vars

\* an update has been applied and a row holds the new value
C19_Witness ==
    \E i \in 1..Len(modifications) :
        /\ modifications[i].operation = "update"
        /\ modifications[i].status = "applied"
        /\ \E r \in 1..Len(getActiveData) :
              /\ HasKey(getActiveData[r], modifications[i].field)
              /\ Get(getActiveData[r], modifications[i].field)
                    = StrVal(modifications[i].newValue)

\* the dataset with the name among the three given
datasetNamed(name, c, w, t) ==
    CASE name = "clients" -> c
      [] name = "workers" -> w
      [] OTHER            -> t

\* C20: each apply hands the host one new table, the result of
\* applyModification on the active dataset, and the host stores it as the
\* active dataset only: the active dataset becomes that table and the two
\* datasets that are not active are unchanged.
C20_ApplyStoresInActiveDatasetOnly ==
    [][\A i \in 1..Len(modifications) :
          applyModificationToData(i)
          => /\ activeDataset' = activeDataset
             /\ datasetNamed(activeDataset, clients', workers', tasks')
                   = applyModification(getActiveData, modifications[i])
             /\ \A name \in DatasetNames \ {activeDataset} :
                   datasetNamed(name, clients', workers', tasks')
                      = datasetNamed(name, clients, workers, tasks)]_vars

\* a delete has been applied to the clients, which have lost rows, while the
\* workers and the tasks hold their uploaded tables
C20_Witness ==
    /\ activeDataset = "clients"
    /\ Len(clients) < Len(ThreeClients)
    /\ workers = OneWorker
    /\ tasks = TwoTasks
    /\ \E i \in 1..Len(modifications) :
          /\ modifications[i].operation = "delete"
          /\ modifications[i].status = "applied"

\* a name or phrase without white space and underscores, lower-cased
bareName(s) == SelectSeq(toLowerCase(s), LAMBDA c : c \notin {" ", "_"})

\* the positions of the fields whose bare name occurs in the bare phrase
matchingFields(fields, phrase) ==
    {i \in 1..Len(fields) : includes(bareName(phrase), bareName(fields[i]))}

\* C21: parseCommand resolves the field to the first field, in the order of
\* the keys of the first row, whose normalized name is a substring of the
\* normalized phrase; the resolved field is a member of the field set, and
\* parsing fails (no record is made) exactly when no field matches.
C21_FirstMatchingFieldWins ==
    [][processCommand
          => IF matchingFields(availableFields(getActiveData), command) = {}
             THEN modifications' = modifications
             ELSE /\ Len(modifications') = Len(modifications) + 1
                  /\ modifications'[1].field
                        = availableFields(getActiveData)[
                              Min(matchingFields(availableFields(getActiveData), command))]
                  /\ modifications'[1].field \in Range(availableFields(getActiveData))]_vars

\* a record whose phrase names two fields of the table holds the first of them
C21_Witness ==
    /\ clients = Staff
    /\ Len(modifications) = 1
    /\ modifications[1].command = FirstNamePhrase
    /\ modifications[1].field = <<"F","i","r","s","t","_","N","a","m","e">>

\* the phrase contains one of the words
containsAny(lc, words) == \E w \in words : includes(lc, w)

\* the places of "to " followed by one of the seven transform names
namedTransforms(lc) ==
    {p \in 1..Len(lc) : \E n \in 1..Len(TransformNames) :
        IsPrefixAt(lc, <<"t","o"," ">> \o TransformNames[n], p)}

\* the transform name after the first such "to "
namedTransform(lc) ==
    TransformNames[CHOOSE n \in 1..Len(TransformNames) :
        IsPrefixAt(lc, <<"t","o"," ">> \o TransformNames[n], Min(namedTransforms(lc)))]

\* the places of "to " followed by a word
toWords(lc) ==
    {p \in 1..Len(lc) : IsPrefixAt(lc, <<"t","o"," ">>, p) /\ Run(lc, p + 3, IsWord) >= 1}

\* the word of the last "to <word>" part
toWord(lc) == Sub(lc, Max(toWords(lc)) + 3, Run(lc, Max(toWords(lc)) + 3, IsWord))

\* the operation the six rules give the lower-cased phrase
ruledOperation(lc) ==
    IF namedTransforms(lc) # {} THEN "transform"
    ELSE IF containsAny(lc, {<<"d","e","l","e","t","e">>, <<"r","e","m","o","v","e">>}) THEN "delete"
    ELSE IF containsAny(lc, {<<"a","d","d">>, <<"i","n","s","e","r","t">>}) THEN "add"
    ELSE IF containsAny(lc, {<<"r","e","p","l","a","c","e">>, <<"s","w","a","p">>}) THEN "replace"
    ELSE IF containsAny(lc, {<<"t","r","a","n","s","f","o","r","m">>, <<"c","o","n","v","e","r","t">>}) THEN "transform"
    ELSE "update"

\* C22: parseCommand picks the operation by the first rule that applies:
\* 'to ' and a transform name give transform with the name as literal; then
\* delete/remove give delete, add/insert add, replace/swap replace;
\* transform/convert give transform, with the word of the 'to <word>' part as
\* literal for convert as well as for transform phrases; otherwise update.
C22_OperationByFirstRule ==
    [][(processCommand /\ Len(modifications') = Len(modifications) + 1)
          => /\ modifications'[1].operation = ruledOperation(toLowerCase(command))
             /\ namedTransforms(toLowerCase(command)) # {}
                   => modifications'[1].newValue = namedTransform(toLowerCase(command))
             /\ (/\ namedTransforms(toLowerCase(command)) = {}
                 /\ ruledOperation(toLowerCase(command)) = "transform"
                 /\ toWords(toLowerCase(command)) # {})
                   => modifications'[1].newValue = toWord(toLowerCase(command))]_vars

\* the lower-cased text of the row's value for the field, the empty string
\* for an absent value
textOf(row, f) ==
    IF Get(row, f).kind = "undefined" THEN <<>> ELSE toLowerCase(String(Get(row, f)))

\* the operators of a clause
ClauseOperators ==
    {<<"=">>, <<">">>, <<"<">>, <<"c","o","n","t","a","i","n","s">>,
     <<"s","t","a","r","t","s">>, <<"e","n","d","s">>}

\* C23: for every row and every clause 'f = v', evaluateCondition is true
\* exactly when the lower-cased text of the row's value for f equals the
\* lower-cased v, only an absent value counting as the empty string (the
\* number 0 satisfies 'f = 0', the boolean false 'f = false'); a clause with
\* an operator outside =, >, <, contains, starts, ends is false for every row.
C23_EqualsComparesTheText ==
    [][\A i \in 1..Len(modifications) :
          (/\ applyModificationToData(i)
           /\ Len(split(modifications[i].condition)) = 3)
          => \A r \in 1..Len(getActiveData) :
                /\ split(modifications[i].condition)[2] = <<"=">>
                      => evaluateCondition(getActiveData[r], modifications[i].condition)
                            = (textOf(getActiveData[r], split(modifications[i].condition)[1])
                                  = toLowerCase(split(modifications[i].condition)[3]))
                /\ split(modifications[i].condition)[2] \notin ClauseOperators
                      => ~evaluateCondition(getActiveData[r], modifications[i].condition)]_vars

\* what the where clause m of a command says of the row: the lower-cased
\* text of the field m.g1 starts with, ends with or equals the value m.g3
clauseSays(row, m) ==
    IF m.g2 = <<"s","t","a","r","t","s"," ","w","i","t","h">>
    THEN startsWith(textOf(row, m.g1), m.g3)
    ELSE IF m.g2 = <<"e","n","d","s"," ","w","i","t","h">>
    THEN endsWith(textOf(row, m.g1), m.g3)
    ELSE textOf(row, m.g1) = m.g3

\* the where clauses C24 is about: 'starts with', 'ends with', and an
\* equality whose value has several words
wholeClause(m) ==
    /\ m.ok
    /\ \/ m.g2 \in {<<"s","t","a","r","t","s"," ","w","i","t","h">>,
                    <<"e","n","d","s"," ","w","i","t","h">>}
       \/ m.g2 = <<"=">> /\ includes(m.g3, <<" ">>)

\* C24: the where clause of a command reaches the evaluator unchanged: a
\* clause 'f starts with v' (or 'f ends with v') selects exactly the rows
\* whose lower-cased text of f starts (ends) with v, and a value of several
\* words is compared as a whole.
C24_WhereClauseSurvives ==
    [][\A i \in 1..Len(modifications) :
          (/\ applyModificationToData(i)
           /\ wholeClause(whereMatch(toLowerCase(modifications[i].command))))
          => \A r \in 1..Len(getActiveData) :
                evaluateCondition(getActiveData[r], modifications[i].condition)
                   = clauseSays(getActiveData[r],
                                whereMatch(toLowerCase(modifications[i].command)))]_vars

\* the positions in the schema of the first row of the fields of row r that
\* fail their rule
failingFields(data, r, lenient) ==
    {i \in 1..Len(data[1]) :
        issueOf(inferRule(data[1][i].k, data[1][i].v),
                Get(data[r], data[1][i].k), lenient) # NoIssue}

\* the issues of errors that carry the field and the row number
issuesFor(errors, field, r) ==
    {j \in 1..Len(errors) : errors[j].field = field /\ errors[j].rowIndex = r}

\* every failing field of every row has exactly one issue in errors, with
\* the offending value, and errors has no other issue
oneIssueEach(data, errors, lenient) ==
    /\ \A r \in 1..Len(data) : \A i \in 1..Len(data[1]) :
          /\ Cardinality(issuesFor(errors, data[1][i].k, r))
                = (IF i \in failingFields(data, r, lenient) THEN 1 ELSE 0)
          /\ \A j \in issuesFor(errors, data[1][i].k, r) :
                errors[j].value = Get(data[r], data[1][i].k)
    /\ \A j \in 1..Len(errors) :
          /\ errors[j].rowIndex \in 1..Len(data)
          /\ \E i \in 1..Len(data[1]) : errors[j].field = data[1][i].k

\* the statistics of a validation run as they are stated
statedStats(data, lenient) ==
    [totalRows        |-> Len(data),
     validRows        |-> Len(data)
                          - Cardinality({r \in 1..Len(data) :
                                            failingFields(data, r, lenient) # {}}),
     errorRows        |->
         Cardinality({r \in 1..Len(data) : failingFields(data, r, lenient) # {}}),
     errorCount       |->
         Cardinality({p \in (1..Len(data)) \X (1..Len(data[1])) :
                         p[2] \in failingFields(data, p[1], lenient)}),
     fieldsWithErrors |->
         Cardinality({i \in 1..Len(data[1]) :
                         \E r \in 1..Len(data) : i \in failingFields(data, r, lenient)})]

\* C25: after a validation run on a table every failing field of every row
\* has produced exactly one issue with that field, the offending value and
\* the 1-based row number, and the statistics are: totalRows the number of
\* rows, errorRows the number of rows with an issue, fieldsWithErrors the
\* number of fields with an issue, errorCount the number of issues, and
\* validRows = totalRows - errorRows.
C25_OneIssuePerFailingField ==
    [][validateData
          => \E lenient \in BOOLEAN :
                /\ oneIssueEach(getActiveData, validationErrors', lenient)
                /\ validationStats' = statedStats(getActiveData, lenient)]_vars

\* a validation run has found two issues in one row and an issue in another
C25_Witness ==
    /\ validationMounted
    /\ \E a, b, c \in 1..Len(validationErrors) :
          /\ a # b
          /\ validationErrors[a].rowIndex = validationErrors[b].rowIndex
          /\ validationErrors[c].rowIndex # validationErrors[a].rowIndex
    /\ validationStats.errorRows = 2
    /\ validationStats.errorCount > 2

\* the two rows have the same fields in the same order and the same values
\* in every field but f
sameButField(before, after, f) ==
    /\ Len(after) = Len(before) + (IF HasKey(before, f) THEN 0 ELSE 1)
    /\ \A j \in 1..Len(before) :
          /\ after[j].k = before[j].k
          /\ before[j].k # f => after[j].v = before[j].v

\* what applying the record m to the table before has to leave in after
mappedInPlace(before, after, m) ==
    /\ Len(after) = Len(before)
    /\ \A r \in 1..Len(before) : sameButField(before[r], after[r], m.field)
    /\ applyThrows(before, m) => after = before
    /\ ~applyThrows(before, m)
          => \A r \in 1..Len(before) :
                IF rowSelected(before, m, r)
                THEN m.operation = "update"
                        => Get(after[r], m.field) = StrVal(m.newValue)
                ELSE after[r] = before[r]

\* C26: applying an update record returns a table of the same length in
\* which every selected row has the record's field set to the record's
\* literal string and its other fields unchanged and every unselected row is
\* unchanged; update, replace and transform never change the number or the
\* order of the rows.
C26_UpdateSetsTheLiteralInPlace ==
    [][\A i \in 1..Len(modifications) :
          (/\ applyModificationToData(i)
           /\ modifications[i].operation \in {"update", "replace", "transform"})
          => mappedInPlace(getActiveData, getActiveData', modifications[i])]_vars

\* an update record has been applied: a row holds its literal, another row
\* does not
C26_Witness ==
    /\ Len(modifications) = 1
    /\ modifications[1].operation = "update"
    /\ modifications[1].status = "applied"
    /\ modifications[1].newValue # <<>>
    /\ \E r, u \in 1..Len(getActiveData) :
          /\ Get(getActiveData[r], modifications[1].field)
                = StrVal(modifications[1].newValue)
          /\ Get(getActiveData[u], modifications[1].field)
                # StrVal(modifications[1].newValue)

\* C27: whenever a pending record is applied, its field is a member of the
\* field set of the table it is applied to, also after the active dataset
\* has been switched while the modifier panel stays open.
C27_AppliedFieldIsInTheTable ==
    [][\A i \in 1..Len(modifications) :
          applyModificationToData(i)
          => /\ getActiveData # <<>>
             /\ HasKey(getActiveData[1], modifications[i].field)]_vars

\* C28: in every state of the validation panel, also after the active
\* dataset has been switched while the panel stays open, every listed issue
\* belongs to the active table: its row number is between 1 and the number
\* of rows of that table, and the displayed number of valid rows is never
\* negative.
C28_IssuesBelongToTheActiveTable ==
    validationMounted
    => /\ \A j \in 1..Len(validationErrors) :
             validationErrors[j].rowIndex \in 1..Len(getActiveData)
       /\ validationStats.validRows >= 0

\* the e-mail address of a client, which no previewed phrase changes and
\* which tells the three clients apart
addressOf(row) == Get(row, <<"e","m","a","i","l">>)

\* the clients of before that are changed or removed in after
touchedRows(before, after) ==
    {addressOf(before[r]) : r \in {q \in 1..Len(before) : before[q] \notin Range(after)}}

\* the clients that were at the positions of the record when it was previewed
previewedRows(m) ==
    {addressOf(ThreeClients[p]) : p \in Range(m.affectedRows) \cap 1..Len(ThreeClients)}

\* applying the record writes a value that differs from the one it replaces
writesAnew(data, m) ==
    \/ m.operation = "delete"
    \/ \A r \in 1..Len(data) : Get(data[r], m.field) # StrVal(m.newValue)

\* C29: for a record created in preview mode with operation update, delete,
\* replace or transform, affectedRows is exactly the set of 1-based positions
\* selected in the table at preview time, the preview leaves the table
\* unchanged, and the rows changed or removed when the record is applied
\* later are exactly the rows that were at those positions at preview time,
\* whatever other records were applied in between.
C29_PreviewedRowsAreTheAppliedRows ==
    [][/\ (processCommand /\ previewMode /\ Len(modifications') = Len(modifications) + 1)
          => /\ getActiveData' = getActiveData
             /\ Range(modifications'[1].affectedRows)
                   = {p \in 1..Len(getActiveData) :
                         rowSelected(getActiveData,
                                     [modifications'[1] EXCEPT !.affectedRows =
                                         rowNumbers(toLowerCase(command))], p)}
       /\ \A i \in 1..Len(modifications) :
             (/\ applyModificationToData(i)
              /\ modifications[i].operation \in {"update", "delete"}
              /\ writesAnew(getActiveData, modifications[i]))
             => touchedRows(getActiveData, getActiveData')
                   = previewedRows(modifications[i])]_vars

\* the value a lower-cased command carries after 'with'
valueAfterWith(lc) == keywordMatch(lc, <<"w","i","t","h">>)

\* C30: for a command whose operation is add and which carries a value after
\* 'with' (the example 'Add new row with name John' on a table with a name
\* field) the record's literal is that non-empty value, and applying the
\* record appends a row whose target field is not the empty string.
C30_AddCarriesItsValue ==
    [][/\ (/\ processCommand
           /\ Len(modifications') = Len(modifications) + 1
           /\ modifications'[1].operation = "add"
           /\ valueAfterWith(toLowerCase(command)).ok)
          => /\ modifications'[1].newValue # <<>>
             /\ includes(valueAfterWith(toLowerCase(command)).g,
                         toLowerCase(modifications'[1].newValue))
       /\ \A i \in 1..Len(modifications) :
             (/\ applyModificationToData(i)
              /\ modifications[i].operation = "add"
              /\ valueAfterWith(toLowerCase(modifications[i].command)).ok)
             => /\ Len(getActiveData') = Len(getActiveData) + 1
                /\ Get(getActiveData'[Len(getActiveData')], modifications[i].field)
                      \notin {Undefined, StrVal(<<>>)}]_vars

====
